---- MODULE Spec2Model ----
(***************************************************************************)
(* OCL interpreter: code generator (src/src/interpreter/codegen.c), chunk  *)
(* (src/src/vm/bytecode.c) and virtual machine (src/src/vm/vm.c,           *)
(* src/src/stdlib/stdlib.c), modelled as one state machine that takes a    *)
(* parsed program through generation and execution.                        *)
(*                                                                         *)
(* Conventions.                                                            *)
(*  - C arrays are sequences; a C index i is the element i + 1.            *)
(*  - A char* is the index of a buffer in `heap`; 0 is the NULL pointer.   *)
(*    Every allocation gets a fresh index, and a freed buffer keeps its    *)
(*    index with live = FALSE, so a dangling pointer is recognisable.      *)
(*  - The bytes of a C string are a sequence of one-character strings.     *)
(*  - A double is modelled by an integer (integral doubles only).          *)
(***************************************************************************)
EXTENDS Integers, Sequences, FiniteSets, TLC

(***************************************************************************)
(* Bounds                                                                  *)
(***************************************************************************)
\* capacity of the value stack (VM_STACK_MAX; its #define is not in src/)
VM_STACK_MAX == 16
\* capacity of the frame stack (VM_FRAMES_MAX; its #define is not in src/)
VM_FRAMES_MAX == 4

(***************************************************************************)
(* Program constants                                                       *)
(***************************************************************************)
\* 0xFFFFFFFF: the model checker's integers are 32-bit signed, so the
\* largest of them stands for the largest uint32_t; all the code does with
\* the sentinel is compare it with start_ip values and function_count.
SENTINEL == 2147483647
BUILTIN_PRINT == 1
BUILTIN_PRINTF == 2
BUILTIN_MAX == 19
BUILTIN_TO_INT == 40
BUILTIN_TO_STRING == 42
BUILTIN_TO_BOOL == 43
BUILTIN_EXIT == 50
BUILTIN_ASSERT == 51
LOCAL_SLACK == 8
\* char name_buf[256] of parse_statement
NAME_BUF == 256

(***************************************************************************)
(* Values (Value, include/type_checker.h:215-270)                          *)
(***************************************************************************)
value_int(i)   == [type |-> "INT",   owned |-> FALSE, num |-> i, buf |-> 0]
value_float(f) == [type |-> "FLOAT", owned |-> FALSE, num |-> f, buf |-> 0]
value_bool(b)  == [type |-> "BOOL",  owned |-> FALSE, num |-> IF b THEN 1 ELSE 0, buf |-> 0]
value_null     == [type |-> "NULL",  owned |-> FALSE, num |-> 0, buf |-> 0]
value_string(p) == [type |-> "STRING", owned |-> TRUE, num |-> 0, buf |-> p]
value_string_borrow(p) == [type |-> "STRING", owned |-> FALSE, num |-> 0, buf |-> p]

(***************************************************************************)
(* Heap of string buffers                                                  *)
(***************************************************************************)
\* ocl_strdup / ocl_malloc of a string: a fresh live buffer holding s
Alloc(h, s) == Append(h, [live |-> TRUE, data |-> s])
NewBuf(h) == Len(h) + 1

Live(h, p) == p \in 1..Len(h) /\ h[p].live

\* free(p): the buffer is released
FreeBuf(h, p) == IF p \in 1..Len(h) THEN [h EXCEPT ![p].live = FALSE] ELSE h


\* a release that does not look at the owned flag
value_free_any(h, v) ==
    IF v.type = "STRING" /\ v.buf # 0 THEN FreeBuf(h, v.buf) ELSE h

\* value_free: releases the buffer of an owned string, no-op otherwise
value_free(h, v) ==
    IF v.type = "STRING" /\ v.owned /\ v.buf # 0 THEN FreeBuf(h, v.buf) ELSE h

\* a value_own_copy that hands every value back as it came
value_own_copy_asis(h, v, s) == [val |-> v, heap |-> h]

\* value_own_copy: v itself when it is owned or not a string, else a fresh
\* owned copy of the bytes read through v; yields [val, heap]
value_own_copy(h, v, s) ==
    IF v.type = "STRING" /\ ~v.owned
    THEN [val |-> value_string(NewBuf(h)), heap |-> Alloc(h, s)]
    ELSE [val |-> v, heap |-> h]

\* value_is_truthy, on a string whose bytes are s
value_is_truthy(v, s) ==
    CASE v.type = "BOOL"   -> v.num # 0
      [] v.type = "INT"    -> v.num # 0
      [] v.type = "FLOAT"  -> v.num # 0
      [] v.type = "STRING" -> v.buf # 0 /\ s # <<>>
      [] OTHER             -> FALSE

(***************************************************************************)
(* Syntax tree (include/ast.h).  A node is a record; an optional child is  *)
(* a sequence of length 0 or 1.                                            *)
(***************************************************************************)
Node(t, n) == [type |-> t, location |-> [line |-> n, column |-> 1, filename |-> "src"], name |-> "", operator |-> "",
               value |-> value_null, str |-> <<>>, kids |-> <<>>, params |-> <<>>,
               body |-> <<>>, else_block |-> <<>>, has_else |-> FALSE,
               init |-> <<>>, condition |-> <<>>, increment |-> <<>>]

IntLit(n, i)   == [Node("AST_LITERAL", n) EXCEPT !.value = value_int(i)]
FloatLit(n, f) == [Node("AST_LITERAL", n) EXCEPT !.value = value_float(f)]
\* the literal's own buffer belongs to the tree and is not part of `heap`;
\* str is its contents and value.buf only says the pointer is not NULL
StrLit(n, s)   == [Node("AST_LITERAL", n) EXCEPT !.value = value_string(1), !.str = s]
Ident(n, x)    == [Node("AST_IDENTIFIER", n) EXCEPT !.name = x]
BinOp(n, l, o, r) == [Node("AST_BIN_OP", n) EXCEPT !.operator = o, !.kids = <<l, r>>]
Assign(n, x, r) == BinOp(n, Ident(n, x), "=", r)
UnaryOp(n, o, e) == [Node("AST_UNARY_OP", n) EXCEPT !.operator = o, !.kids = <<e>>]
Call(n, f, args) == [Node("AST_CALL", n) EXCEPT !.name = f, !.kids = args]
Index(n, a, i) == [Node("AST_INDEX_ACCESS", n) EXCEPT !.kids = <<a, i>>]
VarDecl(n, x, e) == [Node("AST_VAR_DECL", n) EXCEPT !.name = x, !.kids = <<e>>]
FuncDecl(n, f, ps, b) == [Node("AST_FUNC_DECL", n) EXCEPT !.name = f, !.params = ps, !.body = b]
If(n, c, t) == [Node("AST_IF_STMT", n) EXCEPT !.condition = <<c>>, !.body = t]
IfElse(n, c, t, e) == [Node("AST_IF_STMT", n) EXCEPT !.condition = <<c>>, !.body = t,
                                                     !.else_block = e, !.has_else = TRUE]
While(n, c, b) == [Node("AST_WHILE_LOOP", n) EXCEPT !.condition = <<c>>, !.body = b]
For(n, i, c, s, b) == [Node("AST_FOR_LOOP", n) EXCEPT !.init = i, !.condition = c,
                                                      !.increment = s, !.body = b]
Return(n, e) == [Node("AST_RETURN", n) EXCEPT !.kids = <<e>>]

(***************************************************************************)
(* Bytecode chunk (src/src/vm/bytecode.c).  The operators act on the       *)
(* generator state g, which carries the chunk, the collector and the heap. *)
(***************************************************************************)
bytecode_create == [instructions |-> <<>>, constants |-> <<>>, functions |-> <<>>]

instruction_count(bc) == Len(bc.instructions)

bytecode_emit(g, op, op1, op2, loc) ==
    [g EXCEPT !.bytecode.instructions =
        Append(@, [opcode |-> op, operand1 |-> op1, operand2 |-> op2, location |-> loc])]

bytecode_patch(g, index, new_operand1) ==
    IF index >= instruction_count(g.bytecode) THEN g
    ELSE [g EXCEPT !.bytecode.instructions[index + 1].operand1 = new_operand1]

\* v is the value, s the bytes its string_val points to; yields the state
\* after insertion (the ordinal is the previous constant_count)
bytecode_add_constant(g, v, s) ==
    IF v.type = "STRING" /\ v.buf # 0
    THEN [g EXCEPT !.bytecode.constants = Append(@, [v EXCEPT !.buf = NewBuf(g.heap)]),
                   !.heap = Alloc(@, s)]
    ELSE [g EXCEPT !.bytecode.constants = Append(@, v)]

bytecode_find_function(bc, name) ==
    IF \E i \in 1..Len(bc.functions) : bc.functions[i].name = name
    THEN (CHOOSE i \in 1..Len(bc.functions) :
            /\ bc.functions[i].name = name
            /\ \A j \in 1..(i - 1) : bc.functions[j].name # name) - 1
    ELSE -1

\* yields the state; the returned ordinal is bytecode_find_function afterwards
bytecode_add_function(g, name, start_ip, param_count) ==
    LET i == bytecode_find_function(g.bytecode, name) IN
    IF i >= 0
    THEN [g EXCEPT !.bytecode.functions[i + 1] =
            [@ EXCEPT !.start_ip = IF start_ip # SENTINEL THEN start_ip ELSE @,
                      !.param_count = param_count]]
    ELSE [g EXCEPT !.bytecode.functions =
            Append(@, [name |-> name, start_ip |-> start_ip,
                       param_count |-> param_count, local_count |-> 0])]

(***************************************************************************)
(* Diagnostic collector (src/src/frontend/errors.c)                        *)
(***************************************************************************)
error_add(g, type, loc, msg) ==
    [g EXCEPT !.errors = Append(@, [type |-> type, location |-> loc, message |-> msg])]

\* a test that finds every collector empty
error_has_errors_blind(errs) == FALSE

error_has_errors(errs) == Len(errs) > 0


(***************************************************************************)
(* Code generator (src/src/interpreter/codegen.c:1-388)                    *)
(***************************************************************************)
\* the built-in table codegen_create builds: print, printf, then the
\* entries of STDLIB_TABLE the programs below can name
Builtins == << [name |-> "print",    id |-> BUILTIN_PRINT],
               [name |-> "printf",   id |-> BUILTIN_PRINTF],
               [name |-> "max",      id |-> BUILTIN_MAX],
               [name |-> "toInt",    id |-> BUILTIN_TO_INT],
               [name |-> "toString", id |-> BUILTIN_TO_STRING],
               [name |-> "toBool",   id |-> BUILTIN_TO_BOOL],
               [name |-> "exit",     id |-> BUILTIN_EXIT],
               [name |-> "assert",   id |-> BUILTIN_ASSERT] >>

lookup_builtin(name) ==
    IF \E i \in 1..Len(Builtins) : Builtins[i].name = name
    THEN Builtins[CHOOSE i \in 1..Len(Builtins) : Builtins[i].name = name].id
    ELSE -1

\* innermost (last added) non-global entry with that name
lookup_local(g, name) ==
    LET hits == {i \in 1..Len(g.vars) : ~g.vars[i].is_global /\ g.vars[i].name = name} IN
    IF hits = {} THEN -1
    ELSE g.vars[CHOOSE i \in hits : \A j \in hits : j <= i].slot

lookup_global(g, name) ==
    LET hits == {i \in 1..Len(g.globals) : g.globals[i].name = name} IN
    IF hits = {} THEN -1
    ELSE g.globals[CHOOSE i \in hits : \A j \in hits : i <= j].slot

\* the slot handed out is local_stack[top] before the increment
add_local(g, name) ==
    LET top  == Len(g.local_stack)
        slot == g.local_stack[top] IN
    [g EXCEPT !.local_stack[top] = slot + 1,
              !.vars = Append(@, [name |-> name, slot |-> slot,
                                  scope_level |-> g.scope_level, is_global |-> FALSE])]

add_global(g, name) ==
    [g EXCEPT !.globals = Append(@, [name |-> name, slot |-> Len(g.globals),
                                     scope_level |-> 0, is_global |-> TRUE])]

enter_scope(g) == [g EXCEPT !.scope_level = @ + 1]

\* a scope exit that hands the slots of the removed entries out again
exit_scope_reclaim(g) ==
    [g EXCEPT !.vars = SelectSeq(@, LAMBDA v : v.scope_level < g.scope_level),
              !.scope_level = @ - 1,
              !.local_stack[Len(g.local_stack)] =
                  @ - Len(SelectSeq(g.vars, LAMBDA v : ~v.is_global
                                                       /\ v.scope_level >= g.scope_level))]

exit_scope(g) ==
    [g EXCEPT !.vars = SelectSeq(@, LAMBDA v : v.scope_level < g.scope_level),
              !.scope_level = @ - 1]

BinOpcode(op) ==
    CASE op = "+"  -> "OP_ADD"
      [] op = "-"  -> "OP_SUBTRACT"
      [] op = "*"  -> "OP_MULTIPLY"
      [] op = "/"  -> "OP_DIVIDE"
      [] op = "%"  -> "OP_MODULO"
      [] op = "==" -> "OP_EQUAL"
      [] op = "!=" -> "OP_NOT_EQUAL"
      [] op = "<"  -> "OP_LESS"
      [] op = "<=" -> "OP_LESS_EQUAL"
      [] op = ">"  -> "OP_GREATER"
      [] op = ">=" -> "OP_GREATER_EQUAL"
      [] op = "&&" -> "OP_AND"
      [] op = "||" -> "OP_OR"
      [] OTHER     -> "NONE"

\* push of a Null constant: bytecode_add_constant(value_null()) + OP_PUSH_CONST
EmitPushNull(g, loc) ==
    bytecode_emit(bytecode_add_constant(g, value_null, <<>>), "OP_PUSH_CONST",
                  Len(g.bytecode.constants), 0, loc)

IsAssign(node) == node.type = "AST_BIN_OP" /\ node.operator = "="

RECURSIVE emit_expr(_, _), emit_exprs(_, _, _), emit_node(_, _), emit_nodes(_, _, _)

\* bc->instruction_count
Here(g) == instruction_count(g.bytecode)

\* bytecode_patch(bc, idx, (uint32_t)bc->instruction_count)
PatchHere(g, idx) == bytecode_patch(g, idx, Here(g))

\* for (i = 0; i < count; i++) emit_expr(g, list[i]), from element i on
emit_exprs(g, list, i) ==
    IF i > Len(list) THEN g ELSE emit_exprs(emit_expr(g, list[i]), list, i + 1)

\* for (i = 0; i < count; i++) emit_node(g, list[i]), from element i on
emit_nodes(g, list, i) ==
    IF i > Len(list) THEN g ELSE emit_nodes(emit_node(g, list[i]), list, i + 1)

\* AST_IDENTIFIER case of emit_expr
EmitLoad(g, expr) ==
    LET local  == lookup_local(g, expr.name)
        global == lookup_global(g, expr.name) IN
    IF local >= 0 THEN bytecode_emit(g, "OP_LOAD_VAR", local, 0, expr.location)
    ELSE IF global >= 0 THEN bytecode_emit(g, "OP_LOAD_GLOBAL", global, 0, expr.location)
    ELSE EmitPushNull(error_add(g, "ERROR_PARSER", expr.location, "Undefined variable"),
                      expr.location)

\* the store an assignment to identifier name ends with; g has the right
\* side emitted
EmitStore(g, name, loc) ==
    LET local  == lookup_local(g, name)
        global == lookup_global(g, name) IN
    IF local >= 0 THEN bytecode_emit(g, "OP_STORE_VAR", local, 0, loc)
    ELSE IF global >= 0 THEN bytecode_emit(g, "OP_STORE_GLOBAL", global, 0, loc)
    ELSE error_add(g, "ERROR_PARSER", loc, "Cannot assign to undefined")

\* the opcode after both operands of a binary operator
EmitBinOpcode(g, op, loc) ==
    IF BinOpcode(op) = "NONE" THEN g ELSE bytecode_emit(g, BinOpcode(op), 0, 0, loc)

\* the opcode after the operand of a unary operator
EmitUnaryOpcode(g, op, loc) ==
    IF op = "-" THEN bytecode_emit(g, "OP_NEGATE", 0, 0, loc)
    ELSE IF op = "!" THEN bytecode_emit(g, "OP_NOT", 0, 0, loc)
    ELSE g

\* the call instruction after the arguments; fidx is -1 for an unknown name
EmitCallOpcode(g, bid, fidx, argc, loc) ==
    IF bid > 0 THEN bytecode_emit(g, "OP_CALL_BUILTIN", bid, argc, loc)
    ELSE bytecode_emit(g, "OP_CALL", IF fidx >= 0 THEN fidx ELSE SENTINEL, argc, loc)

emit_expr(g, expr) ==
    CASE expr.type = "AST_LITERAL" ->
            bytecode_emit(bytecode_add_constant(g, expr.value, expr.str), "OP_PUSH_CONST",
                          Len(g.bytecode.constants), 0, expr.location)
      [] expr.type = "AST_IDENTIFIER" -> EmitLoad(g, expr)
      [] expr.type = "AST_BIN_OP" ->
            IF expr.operator = "="
            THEN IF expr.kids[1].type = "AST_IDENTIFIER"
                 THEN EmitStore(emit_expr(g, expr.kids[2]), expr.kids[1].name, expr.location)
                 ELSE IF expr.kids[1].type = "AST_INDEX_ACCESS"
                 THEN bytecode_emit(
                        emit_expr(emit_expr(emit_expr(g, expr.kids[1].kids[1]),
                                            expr.kids[1].kids[2]),
                                  expr.kids[2]),
                        "OP_ARRAY_SET", 0, 0, expr.location)
                 ELSE g
            ELSE EmitBinOpcode(emit_expr(emit_expr(g, expr.kids[1]), expr.kids[2]),
                               expr.operator, expr.location)
      [] expr.type = "AST_UNARY_OP" ->
            EmitUnaryOpcode(emit_expr(g, expr.kids[1]), expr.operator, expr.location)
      [] expr.type = "AST_CALL" ->
            EmitCallOpcode(emit_exprs(g, expr.kids, 1), lookup_builtin(expr.name),
                           bytecode_find_function(g.bytecode, expr.name),
                           Len(expr.kids), expr.location)
      [] expr.type = "AST_INDEX_ACCESS" ->
            bytecode_emit(emit_expr(emit_expr(g, expr.kids[1]), expr.kids[2]),
                          "OP_ARRAY_GET", 0, 0, expr.location)
      [] OTHER -> emit_node(g, expr)

\* the parameter entries the AST_FUNC_DECL case appends to vars
ParamSlots(params, level) ==
    [i \in 1..Len(params) |-> [name |-> params[i], slot |-> i - 1,
                               scope_level |-> level, is_global |-> FALSE]]

\* initializer, or a pushed Null when the declaration has none
EmitInit(g, node) ==
    IF Len(node.kids) > 0 THEN emit_expr(g, node.kids[1]) ELSE EmitPushNull(g, node.location)

\* AST_VAR_DECL at global scope: the slot, then initializer and store
GlobalSlot(g, name) == IF lookup_global(g, name) < 0 THEN add_global(g, name) ELSE g

StoreGlobalDecl(g, node) ==
    bytecode_emit(EmitInit(g, node), "OP_STORE_GLOBAL", lookup_global(g, node.name), 0,
                  node.location)

\* AST_FUNC_DECL, in the order of the code.  FuncStart: start_ip recorded
\* and the jump over the body patched a first time; g has the jump emitted
FuncStart(g, fidx, jump_over) ==
    bytecode_patch([g EXCEPT !.bytecode.functions[fidx + 1].start_ip = Here(g)],
                   jump_over, Here(g))

\* the function's scope opened and its parameters bound to slots 0..
FuncEnter(g, params, saved_scope) ==
    [g EXCEPT !.in_global_scope = FALSE,
              !.local_stack = Append(@, Len(params)),
              !.scope_level = @ + 1,
              !.vars = @ \o ParamSlots(params, saved_scope + 1)]

\* push of Null and a return after a body that does not end in OP_RETURN
FuncTail(g, loc) ==
    IF Here(g) = 0 \/ g.bytecode.instructions[Here(g)].opcode # "OP_RETURN"
    THEN bytecode_emit(EmitPushNull(g, loc), "OP_RETURN", 0, 0, loc)
    ELSE g

\* local_count recorded, scope closed, jump over the body patched
FuncLeave(g, fidx, jump_over, saved_scope, saved_global) ==
    PatchHere([g EXCEPT !.bytecode.functions[fidx + 1].local_count =
                            g.local_stack[Len(g.local_stack)],
                        !.local_stack = SubSeq(@, 1, Len(@) - 1),
                        !.vars = SelectSeq(@, LAMBDA v : v.scope_level <= saved_scope),
                        !.scope_level = saved_scope,
                        !.in_global_scope = saved_global],
              jump_over)

\* g0 is the generator at the case's entry, g the one with the function added
EmitFuncDecl(g0, g, node) ==
    FuncLeave(
        FuncTail(
            emit_nodes(
                FuncEnter(FuncStart(bytecode_emit(g, "OP_JUMP", 0, 0, node.location),
                                    bytecode_find_function(g.bytecode, node.name), Here(g)),
                          node.params, g0.scope_level),
                node.body, 1),
            node.location),
        bytecode_find_function(g.bytecode, node.name), Here(g),
        g0.scope_level, g0.in_global_scope)

\* enter_scope; the statements; exit_scope
EmitScoped(g, body) == exit_scope(emit_nodes(enter_scope(g), body, 1))

\* AST_IF_STMT after the then-block (g); jf_idx is the conditional jump
IfEnd(g, jf_idx, node) ==
    IF node.has_else
    THEN PatchHere(EmitScoped(PatchHere(bytecode_emit(g, "OP_JUMP", 0, 0, node.location),
                                        jf_idx),
                              node.else_block),
                   Here(g))
    ELSE PatchHere(g, jf_idx)

\* ... after the condition (g)
EmitIf(g, node) ==
    IfEnd(EmitScoped(bytecode_emit(g, "OP_JUMP_IF_FALSE", 0, 0, node.location), node.body),
          Here(g), node)

\* AST_WHILE_LOOP after the condition (g)
EmitWhile(g, loop_start, node) ==
    PatchHere(bytecode_emit(
                 EmitScoped(bytecode_emit(g, "OP_JUMP_IF_FALSE", 0, 0, node.location),
                            node.body),
                 "OP_JUMP", loop_start, 0, node.location),
              Here(g))

\* AST_FOR_LOOP: scope and init
ForInit(g, node) ==
    IF Len(node.init) > 0 THEN emit_node(enter_scope(g), node.init[1]) ELSE enter_scope(g)

ForCondition(g, node) ==
    IF Len(node.condition) > 0 THEN emit_expr(g, node.condition[1]) ELSE g

ForJumpIfFalse(g, node) ==
    IF Len(node.condition) > 0
    THEN bytecode_emit(g, "OP_JUMP_IF_FALSE", 0, 0, node.location) ELSE g

ForIncrement(g, node) ==
    IF Len(node.increment) = 0 THEN g
    ELSE IF IsAssign(node.increment[1]) THEN emit_expr(g, node.increment[1])
    ELSE bytecode_emit(emit_expr(g, node.increment[1]), "OP_POP", 0, 0, node.location)

ForPatch(g, jf_idx, node) ==
    IF Len(node.condition) > 0 THEN PatchHere(g, jf_idx) ELSE g

\* ... after the condition (g): jump, body, increment, back jump, patch
ForBody(g, loop_start, node) ==
    ForPatch(bytecode_emit(
                ForIncrement(emit_nodes(ForJumpIfFalse(g, node), node.body, 1), node),
                "OP_JUMP", loop_start, 0, node.location),
             IF Len(node.condition) > 0 THEN Here(g) ELSE 0, node)

\* ... after the init (g)
EmitFor(g, node) == exit_scope(ForBody(ForCondition(g, node), Here(g), node))

emit_node(g, node) ==
    CASE node.type \in {"AST_LITERAL", "AST_IDENTIFIER", "AST_BIN_OP"} ->
            IF IsAssign(node) THEN emit_expr(g, node)
            ELSE bytecode_emit(emit_expr(g, node), "OP_POP", 0, 0, node.location)
      [] node.type \in {"AST_UNARY_OP", "AST_CALL"} ->
            bytecode_emit(emit_expr(g, node), "OP_POP", 0, 0, node.location)
      [] node.type = "AST_IMPORT" -> g
      [] node.type = "AST_VAR_DECL" ->
            IF g.in_global_scope
            THEN StoreGlobalDecl(GlobalSlot(g, node.name), node)
            ELSE bytecode_emit(EmitInit(add_local(g, node.name), node), "OP_STORE_VAR",
                               g.local_stack[Len(g.local_stack)], 0, node.location)
      [] node.type = "AST_FUNC_DECL" ->
            EmitFuncDecl(g, bytecode_add_function(g, node.name, 0, Len(node.params)), node)
      [] node.type = "AST_BLOCK" -> EmitScoped(g, node.body)
      [] node.type = "AST_IF_STMT" -> EmitIf(emit_expr(g, node.condition[1]), node)
      [] node.type = "AST_WHILE_LOOP" ->
            EmitWhile(emit_expr(g, node.condition[1]), Here(g), node)
      [] node.type = "AST_FOR_LOOP" -> EmitFor(ForInit(g, node), node)
      [] node.type = "AST_RETURN" ->
            bytecode_emit(EmitInit(g, node), "OP_RETURN", 0, 0, node.location)
      [] node.type \in {"AST_BREAK", "AST_CONTINUE"} -> g
      [] OTHER -> g

\* codegen_create + the resets at the top of codegen_generate
codegen_create(h) ==
    [bytecode |-> bytecode_create, errors |-> <<>>, heap |-> h,
     vars |-> <<>>, scope_level |-> 0, local_stack |-> <<0>>,
     in_global_scope |-> TRUE, globals |-> <<>>]

RECURSIVE AllocGlobals(_, _, _), RegisterFunctions(_, _, _), EmitWhere(_, _, _, _),
          EmitWhereBackwards(_, _, _, _)

\* first loop of codegen_generate: a global slot per top-level declaration
AllocGlobals(g, nodes, i) ==
    IF i > Len(nodes) THEN g
    ELSE AllocGlobals(IF nodes[i].type = "AST_VAR_DECL" THEN GlobalSlot(g, nodes[i].name)
                      ELSE g, nodes, i + 1)

\* second loop: a function entry with the sentinel start_ip per declaration
RegisterFunctions(g, nodes, i) ==
    IF i > Len(nodes) THEN g
    ELSE RegisterFunctions(IF nodes[i].type = "AST_FUNC_DECL"
                           THEN bytecode_add_function(g, nodes[i].name, SENTINEL,
                                                      Len(nodes[i].params))
                           ELSE g, nodes, i + 1)

\* the same loops, last declaration or statement first
EmitWhereBackwards(g, nodes, i, funcs) ==
    IF i > Len(nodes) THEN g
    ELSE IF (nodes[i].type = "AST_FUNC_DECL") = funcs
         THEN emit_node(EmitWhereBackwards(g, nodes, i + 1, funcs), nodes[i])
         ELSE EmitWhereBackwards(g, nodes, i + 1, funcs)

\* third and fourth loop: emit the function declarations (funcs = TRUE) or
\* everything else (funcs = FALSE), in source order
EmitWhere(g, nodes, i, funcs) ==
    IF i > Len(nodes) THEN g
    ELSE EmitWhere(IF (nodes[i].type = "AST_FUNC_DECL") = funcs
                   THEN emit_node(g, nodes[i]) ELSE g, nodes, i + 1, funcs)

\* a generator that appends nothing after the last statement
EmitNoEntry(g) == g

\* a generator that appends the call of main but no halt
EmitMainCallOnly(g) ==
    IF bytecode_find_function(g.bytecode, "main") >= 0
    THEN bytecode_emit(g, "OP_CALL", bytecode_find_function(g.bytecode, "main"),
                       0, [line |-> 1, column |-> 1, filename |-> "entry"])
    ELSE g

\* the call of main, when there is one, and the final OP_HALT
EmitEntry(g) ==
    bytecode_emit(IF bytecode_find_function(g.bytecode, "main") >= 0
                  THEN bytecode_emit(g, "OP_CALL", bytecode_find_function(g.bytecode, "main"),
                                     0, [line |-> 1, column |-> 1, filename |-> "entry"])
                  ELSE g,
                  "OP_HALT", 0, 0, [line |-> 1, column |-> 1, filename |-> "end"])

codegen_generate(g0, nodes) ==
    EmitEntry(EmitWhere(EmitWhere(RegisterFunctions(AllocGlobals(g0, nodes, 1), nodes, 1),
                                  nodes, 1, TRUE),
                        nodes, 1, FALSE))

(***************************************************************************)
(* Virtual machine (src/src/vm/vm.c).  Handlers are written over a machine *)
(* record m = [stack, heap, halted, exit_code, double_free] that the       *)
(* actions read from and write back to the variables.                      *)
(***************************************************************************)
\* the bytes a read through string value v yields; u decides what a read
\* of a released buffer yields (TRUE: the stale bytes, FALSE: garbage)
Rd(h, v, u) ==
    IF v.type # "STRING" \/ v.buf = 0 \/ v.buf > Len(h) THEN <<>>
    ELSE IF h[v.buf].live \/ u THEN h[v.buf].data ELSE <<>>

Dangling(h, v) == v.type = "STRING" /\ v.buf # 0 /\ ~Live(h, v.buf)

\* the outcomes to consider for the reads an instruction makes through vs
UChoices(h, vs) == IF \E i \in 1..Len(vs) : Dangling(h, vs[i]) THEN BOOLEAN ELSE {TRUE}

\* value_free(v) on machine m; double_free notes a release of a buffer that
\* was released before
Free(m, v) == [m EXCEPT !.heap = value_free(@, v),
                        !.double_free = @ \/ (v.type = "STRING" /\ v.owned /\ v.buf # 0
                                              /\ ~Live(m.heap, v.buf))]

vm_push(m, v) ==
    IF Len(m.stack) >= VM_STACK_MAX
    THEN [Free(m, v) EXCEPT !.halted = TRUE, !.exit_code = 1]
    ELSE [m EXCEPT !.stack = Append(@, v)]

\* vm_pop: the machine afterwards, and the value returned
vm_pop(m) ==
    IF Len(m.stack) = 0
    THEN [m |-> [m EXCEPT !.halted = TRUE, !.exit_code = 1], val |-> value_null]
    ELSE [m |-> [m EXCEPT !.stack = SubSeq(@, 1, Len(@) - 1)], val |-> m.stack[Len(m.stack)]]

vm_pop_free(m) == Free(vm_pop(m).m, vm_pop(m).val)

\* Value b = vm_pop(vm); Value a = vm_pop(vm);
Pop2(m) ==
    LET pb == vm_pop(m)
        pa == vm_pop(pb.m) IN
    [m |-> pa.m, a |-> pa.val, b |-> pb.val]

\* value_free(a); value_free(b); vm_push(vm, r)
Finish2(p, r) == vm_push(Free(Free(p.m, p.a), p.b), r)

\* data.int_val of the union: for a string, the pointer's bits
IntVal(v) == IF v.type = "STRING" THEN v.buf ELSE v.num

\* C integer division and remainder (truncation toward zero)
CDiv(a, b) ==
    LET abs(x) == IF x < 0 THEN -x ELSE x IN
    IF (a < 0) = (b < 0) THEN abs(a) \div abs(b) ELSE -(abs(a) \div abs(b))
CMod(a, b) == a - b * CDiv(a, b)

ensure_global(gl, idx) ==
    LET grown == IF idx >= Len(gl.slots)
                 THEN gl.slots \o [i \in 1..(idx + 16 - Len(gl.slots)) |-> value_null]
                 ELSE gl.slots IN
    [slots |-> grown, count |-> IF idx >= gl.count THEN idx + 1 ELSE gl.count]

current_frame(fr) == fr[Len(fr)]

ensure_local(f, idx) ==
    [f EXCEPT !.locals = IF idx >= Len(@)
                         THEN @ \o [i \in 1..(idx + 16 - Len(@)) |-> value_null] ELSE @,
              !.local_count = IF idx >= @ THEN idx + 1 ELSE @]


(***************************************************************************)
(* Type checker (src/src/interpreter/type_checker.c).  Every diagnostic it *)
(* can add concerns names and arities, so types are left out: a symbol is  *)
(* [name, is_function, param_count, scope_level].                          *)
(***************************************************************************)
\* type_checker_check with the collector holding errs: the collector
\* afterwards.  tc is [symbols, scope, errors].
type_checker_check(errs, nodes) ==
    LET symbol_table_lookup(tc, name) ==
            IF \E i \in 1..Len(tc.symbols) : tc.symbols[i].name = name
            THEN CHOOSE i \in 1..Len(tc.symbols) :
                    /\ tc.symbols[i].name = name
                    /\ \A j \in (i + 1)..Len(tc.symbols) : tc.symbols[j].name # name
            ELSE 0
        has_in_current_scope(tc, name) ==
            \E i \in 1..Len(tc.symbols) :
                tc.symbols[i].scope_level = tc.scope /\ tc.symbols[i].name = name
        symbol_table_insert(tc, name, is_function, param_count) ==
            [tc EXCEPT !.symbols = Append(@, [name |-> name, is_function |-> is_function,
                                              param_count |-> param_count,
                                              scope_level |-> tc.scope])]
        enter_scope_(tc) == [tc EXCEPT !.scope = @ + 1]
        exit_scope_(tc) ==
            [tc EXCEPT !.symbols = SelectSeq(@, LAMBDA sym : sym.scope_level # tc.scope),
                       !.scope = @ - 1]
        tc_error(tc, loc, msg) == error_add(tc, "ERROR_TYPE_CHECKER", loc, msg)
        RECURSIVE check_expr(_, _), check_exprs(_, _, _), check_node(_, _),
                  check_nodes(_, _, _), insert_params(_, _, _)
        check_exprs(tc, list, i) ==
            IF i > Len(list) THEN tc ELSE check_exprs(check_expr(tc, list[i]), list, i + 1)
        check_expr(tc, e) ==
            CASE e.type = "AST_IDENTIFIER" ->
                    IF symbol_table_lookup(tc, e.name) = 0
                    THEN tc_error(tc, e.location, "Undefined variable") ELSE tc
              [] e.type = "AST_BIN_OP" -> check_expr(check_expr(tc, e.kids[1]), e.kids[2])
              [] e.type = "AST_UNARY_OP" ->
                    IF e.operator = "!" THEN tc ELSE check_expr(tc, e.kids[1])
              [] e.type = "AST_CALL" ->
                    IF lookup_builtin(e.name) > 0 THEN check_exprs(tc, e.kids, 1)
                    ELSE IF symbol_table_lookup(tc, e.name) = 0
                    THEN tc_error(tc, e.location, "Undefined function")
                    ELSE check_exprs(
                            IF /\ tc.symbols[symbol_table_lookup(tc, e.name)].is_function
                               /\ tc.symbols[symbol_table_lookup(tc, e.name)].param_count
                                      # Len(e.kids)
                            THEN tc_error(tc, e.location, "Function expects other arguments")
                            ELSE tc,
                            e.kids, 1)
              [] OTHER -> tc
        insert_params(tc, params, i) ==
            IF i > Len(params) THEN tc
            ELSE insert_params(symbol_table_insert(tc, params[i], FALSE, 0), params, i + 1)
        check_nodes(tc, list, i) ==
            IF i > Len(list) THEN tc ELSE check_nodes(check_node(tc, list[i]), list, i + 1)
        check_node(tc, n) ==
            CASE n.type = "AST_VAR_DECL" ->
                    symbol_table_insert(
                        check_exprs(IF has_in_current_scope(tc, n.name)
                                    THEN tc_error(tc, n.location, "Variable already declared")
                                    ELSE tc,
                                    n.kids, 1),
                        n.name, FALSE, 0)
              [] n.type = "AST_FUNC_DECL" ->
                    exit_scope_(check_nodes(
                        insert_params(enter_scope_(symbol_table_insert(tc, n.name, TRUE,
                                                                       Len(n.params))),
                                      n.params, 1),
                        n.body, 1))
              [] n.type = "AST_BLOCK" -> exit_scope_(check_nodes(enter_scope_(tc), n.body, 1))
              [] n.type = "AST_IF_STMT" ->
                    IF n.has_else
                    THEN exit_scope_(check_nodes(
                            enter_scope_(exit_scope_(check_nodes(
                                enter_scope_(check_exprs(tc, n.condition, 1)), n.body, 1))),
                            n.else_block, 1))
                    ELSE exit_scope_(check_nodes(
                            enter_scope_(check_exprs(tc, n.condition, 1)), n.body, 1))
              [] n.type \in {"AST_FOR_LOOP", "AST_WHILE_LOOP"} ->
                    exit_scope_(check_nodes(
                        check_nodes(check_exprs(check_nodes(enter_scope_(tc), n.init, 1),
                                                n.condition, 1),
                                    n.increment, 1),
                        n.body, 1))
              [] n.type = "AST_RETURN" -> check_exprs(tc, n.kids, 1)
              [] n.type \in {"AST_BREAK", "AST_CONTINUE"} -> tc
              [] OTHER -> check_expr(tc, n)
        RECURSIVE predeclare(_, _, _), check_top(_, _, _)
        \* first loop: every top-level function and variable is inserted
        predeclare(tc, list, i) ==
            IF i > Len(list) THEN tc
            ELSE predeclare(
                    IF list[i].type = "AST_FUNC_DECL"
                    THEN symbol_table_insert(tc, list[i].name, TRUE, Len(list[i].params))
                    ELSE IF list[i].type = "AST_VAR_DECL"
                    THEN symbol_table_insert(tc, list[i].name, FALSE, 0)
                    ELSE tc,
                    list, i + 1)
        \* second loop: of a top-level declaration only the initializer is
        \* checked
        check_top(tc, list, i) ==
            IF i > Len(list) THEN tc
            ELSE check_top(IF list[i].type = "AST_VAR_DECL"
                           THEN check_exprs(tc, list[i].kids, 1)
                           ELSE check_node(tc, list[i]),
                           list, i + 1)
    IN  check_top(predeclare([symbols |-> <<>>, scope |-> 0, errors |-> errs], nodes, 1),
                  nodes, 1).errors


(***************************************************************************)
(* Parser (src/unnamed/part_002).  A token's location is its place in the  *)
(* array (line i for the i-th token).  The Parser object is a record; the  *)
(* node a parse function returns travels in its field `out`: an optional   *)
(* node is a sequence of length 0 or 1, a block is the sequence of its     *)
(* statements.  A NULL child stored into a node is the node of type        *)
(* "NULL".  Type annotations are parsed and dropped, the tree has no field *)
(* for them.  The field `pending` is the C call stack: the parse functions *)
(* that wait for a callee to return, innermost first, each with the place  *)
(* where it goes on and its locals; it is empty when parser_parse returns. *)
(* Three fields only observe: `colon` collects the callee names whose      *)
(* arguments were parsed in colon mode, `stuck` records a loop iteration   *)
(* that neither consumed a token nor left the loop (the loop is then       *)
(* abandoned), `overrun` a write behind the end of name_buf.               *)
(***************************************************************************)
\* Token (include/lexer.h): value is int_value of an integer token and the
\* characters of a string token
Tok(t, lx, len, v) == [type |-> t, lexeme |-> lx, lexeme_length |-> len, value |-> v]

is_type_name(s) ==
    s \in {"int", "Int", "float", "Float", "string", "String",
           "bool", "Bool", "char", "Char", "void", "Void"}

\* a callee test that lets every call use the colon syntax
is_printf_any(name) == TRUE

\* bool is_printf in parse_call_expr
is_printf(name) == name = "printf" \/ name = "print"

parser_create(tokens, errs) ==
    [tokens |-> tokens, current |-> 0, errors |-> errs, out |-> <<>>,
     pending |-> <<>>, colon |-> {}, stuck |-> FALSE, overrun |-> FALSE]

parser_parse(p0) ==
    LET RECURSIVE skip(_), run(_, _), until_return(_, _)
        NullNode == Node("NULL", 0)
        N(e) == IF e = <<>> THEN NullNode ELSE e[1]
        loc(i) == Node("", i).location
        with_out(p, o) == [p EXCEPT !.out = o]
        \* a parse function that waits for its callee: the place where it
        \* goes on (at) and the locals it goes on with (v)
        F(at, v) == [at |-> at, v |-> v]
        \* the calls a function makes from here on, in their order; a place
        \* of the function itself stands for the rest of its body
        then(p, calls) == [p EXCEPT !.pending = calls \o @]
        \* the loop at the head of at_end, cur_tok: newlines are skipped
        skip(p) ==
            IF p.current < Len(p.tokens) /\ p.tokens[p.current + 1].type = "TOKEN_NEWLINE"
            THEN skip([p EXCEPT !.current = @ + 1])
            ELSE p
        \* place of the token cur_tok returns (the last one when current is
        \* behind the end)
        idx(p) == IF skip(p).current < Len(p.tokens) THEN skip(p).current + 1
                  ELSE Len(p.tokens)
        cur_tok(p) == p.tokens[idx(p)]
        at_end(p) == \/ skip(p).current >= Len(p.tokens)
                     \/ p.tokens[skip(p).current + 1].type = "TOKEN_EOF"
        check(p, t) == cur_tok(p).type = t
        \* p->current++ behind a successful check
        next(p) == [skip(p) EXCEPT !.current = @ + 1]
        \* match with the result not looked at
        match(p, t) == IF check(p, t) THEN next(p) ELSE skip(p)
        \* the token consume returns is cur_tok(p) on both paths
        consume(p, t, msg) ==
            IF check(p, t) THEN next(p)
            ELSE error_add(skip(p), "ERROR_PARSER", loc(idx(p)), msg)
        \* parse_type: the TypeNode is not kept
        type_array(p) ==
            IF check(p, "TOKEN_LBRACKET")
            THEN consume(next(p), "TOKEN_RBRACKET", "Expected ']' after '['")
            ELSE skip(p)
        type_suffix(p, name) ==
            type_array(IF /\ name \in {"int", "Int"}
                          /\ check(p, "TOKEN_INT")
                          /\ cur_tok(p).value \in {32, 64}
                       THEN next(p)
                       ELSE p)
        parse_type(p) ==
            IF cur_tok(p).type # "TOKEN_IDENTIFIER"
            THEN error_add(skip(p), "ERROR_PARSER", loc(idx(p)), "Expected type name")
            ELSE type_suffix(next(p), cur_tok(p).lexeme)
        \* the operator tokens of parse_or, parse_and, parse_equality,
        \* parse_comparison, parse_addition, parse_multiplication
        LevelTokens(lv) ==
            CASE lv = 1 -> {"TOKEN_PIPE_PIPE"}
              [] lv = 2 -> {"TOKEN_AMPERSAND_AMPERSAND"}
              [] lv = 3 -> {"TOKEN_EQUAL_EQUAL", "TOKEN_BANG_EQUAL"}
              [] lv = 4 -> {"TOKEN_LESS", "TOKEN_LESS_EQUAL", "TOKEN_GREATER",
                            "TOKEN_GREATER_EQUAL"}
              [] lv = 5 -> {"TOKEN_PLUS", "TOKEN_MINUS"}
              [] lv = 6 -> {"TOKEN_STAR", "TOKEN_SLASH", "TOKEN_PERCENT"}
        OperatorOf(t) ==
            CASE t = "TOKEN_PIPE_PIPE" -> "||"
              [] t = "TOKEN_AMPERSAND_AMPERSAND" -> "&&"
              [] t = "TOKEN_EQUAL_EQUAL" -> "=="
              [] t = "TOKEN_BANG_EQUAL" -> "!="
              [] t = "TOKEN_LESS" -> "<"
              [] t = "TOKEN_LESS_EQUAL" -> "<="
              [] t = "TOKEN_GREATER" -> ">"
              [] t = "TOKEN_GREATER_EQUAL" -> ">="
              [] t = "TOKEN_PLUS" -> "+"
              [] t = "TOKEN_MINUS" -> "-"
              [] t = "TOKEN_STAR" -> "*"
              [] t = "TOKEN_SLASH" -> "/"
              [] t = "TOKEN_PERCENT" -> "%"
        \* ast_create_binary_op(loc, lhs, op, rhs) with rhs the node the
        \* callee returned
        make_binary(p, lhs, i, op) == with_out(p, <<BinOp(i, N(lhs), op, N(p.out))>>)
        make_unary(p, i, op) == with_out(p, <<UnaryOp(i, op, N(p.out))>>)
        is_c_style_var_decl(p) ==
            /\ cur_tok(p).type = "TOKEN_IDENTIFIER"
            /\ is_type_name(cur_tok(p).lexeme)
            /\ cur_tok(next(p)).type = "TOKEN_IDENTIFIER"

        \* ---- expressions ----
        \* levels 1..6 are parse_or .. parse_multiplication, behind them
        \* parse_unary
        parse_level(p, lv) ==
            IF lv > 6 THEN then(p, <<F("parse_unary", <<>>)>>)
            ELSE then(p, <<F("parse_level", <<lv + 1>>), F("level_loop", <<lv>>)>>)
        level_loop(p, lv) ==
            IF cur_tok(p).type \in LevelTokens(lv)
            THEN then(next(p), <<F("parse_level", <<lv + 1>>),
                                 F("make_binary", <<p.out, idx(p),
                                                    OperatorOf(cur_tok(p).type)>>),
                                 F("level_loop", <<lv>>)>>)
            ELSE skip(p)
        parse_assignment(p) ==
            then(p, <<F("parse_level", <<1>>), F("assignment_tail", <<>>)>>)
        assignment_tail(p) ==
            IF p.out = <<>> THEN p
            ELSE IF check(p, "TOKEN_EQUAL")
                 THEN then(next(p), <<F("parse_assignment", <<>>),
                                      F("make_binary", <<p.out, idx(p), "=">>)>>)
                 ELSE skip(p)
        parse_expression(p) == parse_assignment(p)
        parse_call_expr(p) ==
            then(p, <<F("parse_primary", <<>>), F("call_tail", <<>>)>>)
        parse_unary(p) ==
            IF check(p, "TOKEN_BANG")
            THEN then(next(p), <<F("parse_unary", <<>>), F("make_unary", <<idx(p), "!">>)>>)
            ELSE IF check(p, "TOKEN_MINUS")
                 THEN then(next(p), <<F("parse_unary", <<>>),
                                      F("make_unary", <<idx(p), "-">>)>>)
                 ELSE parse_call_expr(skip(p))
        \* parse_call_expr behind its primary: the argument list ...
        call_close(p, id, args) ==
            with_out(consume(p, "TOKEN_RPAREN", "Expected ')' after arguments"),
                     <<Call(id.location.line, id.name, args)>>)
        comma_loop(p, id, args) ==
            IF check(p, "TOKEN_COMMA")
            THEN then(next(p), <<F("parse_expression", <<>>),
                                 F("comma_next", <<id, args>>)>>)
            ELSE call_close(skip(p), id, args)
        comma_next(p, id, args) == comma_loop(p, id, Append(args, N(p.out)))
        colon_loop(p, id, args) ==
            IF ~check(p, "TOKEN_RPAREN") /\ ~at_end(p)
            THEN then(skip(p), <<F("parse_expression", <<>>),
                                 F("colon_next", <<id, args>>)>>)
            ELSE call_close(skip(p), id, args)
        colon_next(p, id, args) ==
            IF check(p, "TOKEN_COMMA")
            THEN colon_loop(next(p), id, Append(args, N(p.out)))
            ELSE call_close(skip(p), id, Append(args, N(p.out)))
        call_first(p, id) ==
            IF is_printf(id.name) /\ check(p, "TOKEN_COLON")
            THEN colon_loop([next(p) EXCEPT !.colon = @ \cup {id.name}], id, <<N(p.out)>>)
            ELSE comma_loop(p, id, <<N(p.out)>>)
        call_args(p, id) ==
            IF ~check(p, "TOKEN_RPAREN")
            THEN then(skip(p), <<F("parse_expression", <<>>), F("call_first", <<id>>)>>)
            ELSE call_close(skip(p), id, <<>>)
        \* ... and the index loop
        index_loop(p) ==
            IF check(p, "TOKEN_LBRACKET")
            THEN then(next(p), <<F("parse_expression", <<>>),
                                 F("index_close", <<p.out[1], idx(p)>>)>>)
            ELSE skip(p)
        index_close(p, array, i) ==
            index_loop(with_out(consume(p, "TOKEN_RBRACKET", "Expected ']'"),
                                <<Index(i, array, N(p.out))>>))
        call_tail(p) ==
            IF p.out = <<>> THEN p
            ELSE IF p.out[1].type = "AST_IDENTIFIER" /\ check(p, "TOKEN_LPAREN")
                 THEN call_args(next(p), p.out[1])
                 ELSE index_loop(p)
        paren_close(p) == consume(p, "TOKEN_RPAREN", "Expected ')'")
        parse_primary(p) ==
            CASE check(p, "TOKEN_TRUE") ->
                    with_out(next(p), <<[Node("AST_LITERAL", idx(p)) EXCEPT
                                            !.value = value_bool(TRUE)]>>)
              [] check(p, "TOKEN_FALSE") ->
                    with_out(next(p), <<[Node("AST_LITERAL", idx(p)) EXCEPT
                                            !.value = value_bool(FALSE)]>>)
              [] check(p, "TOKEN_INT") ->
                    with_out(next(p), <<IntLit(idx(p), cur_tok(p).value)>>)
              [] check(p, "TOKEN_FLOAT") ->
                    with_out(next(p), <<FloatLit(idx(p), cur_tok(p).value)>>)
              [] check(p, "TOKEN_STRING") ->
                    with_out(next(p), <<StrLit(idx(p), cur_tok(p).value)>>)
              [] check(p, "TOKEN_CHAR") ->
                    with_out(next(p), <<[Node("AST_LITERAL", idx(p)) EXCEPT
                                            !.value = [value_null EXCEPT !.type = "CHAR"],
                                            !.str = cur_tok(p).value]>>)
              [] check(p, "TOKEN_IDENTIFIER") ->
                    with_out(next(p), <<Ident(idx(p), cur_tok(p).lexeme)>>)
              [] check(p, "TOKEN_LPAREN") ->
                    then(next(p), <<F("parse_expression", <<>>), F("paren_close", <<>>)>>)
              [] OTHER ->
                    with_out(error_add(skip(p), "ERROR_PARSER", loc(idx(p)),
                                       "Unexpected token in expression"), <<>>)

        \* ---- blocks and statements ----
        block_loop(p, acc) ==
            IF ~check(p, "TOKEN_RBRACE") /\ ~at_end(p)
            THEN then(skip(p), <<F("parse_statement", <<>>),
                                 F("block_next", <<acc, skip(p).current>>)>>)
            ELSE with_out(consume(p, "TOKEN_RBRACE", "Expected '}'"), acc)
        block_next(p, acc, before) ==
            IF p.current > before THEN block_loop(p, acc \o p.out)
            ELSE with_out([p EXCEPT !.stuck = TRUE], acc \o p.out)
        parse_block(p) == block_loop(consume(p, "TOKEN_LBRACE", "Expected '{'"), <<>>)
        \* name_buf collects the identifier and the optional .ext: len bytes
        \* and the terminating zero
        import_end(p, i, name, len) ==
            with_out(match(consume([p EXCEPT !.overrun = @ \/ len + 1 > NAME_BUF],
                                   "TOKEN_GREATER", "Expected '>'"), "TOKEN_SEMICOLON"),
                     <<[Node("AST_IMPORT", i) EXCEPT !.str = name]>>)
        import_ext(p, i, name, len) ==
            IF check(p, "TOKEN_DOT")
            THEN IF check(next(p), "TOKEN_IDENTIFIER")
                 THEN import_end(next(next(p)), i,
                                 name \o <<".", cur_tok(next(p)).lexeme>>,
                                 len + 1 + cur_tok(next(p)).lexeme_length)
                 ELSE import_end(skip(next(p)), i, name, len)
            ELSE import_end(skip(p), i, name, len)
        import_name(p, i) ==
            IF check(p, "TOKEN_IDENTIFIER")
            THEN import_ext(next(p), i, <<cur_tok(p).lexeme>>, cur_tok(p).lexeme_length)
            ELSE import_ext(skip(p), i, <<>>, 0)
        decl_end(p, i, name) ==
            with_out(match(p, "TOKEN_SEMICOLON"),
                     <<[Node("AST_VAR_DECL", i) EXCEPT !.name = name, !.kids = p.out]>>)
        decl_init(p, i, name) ==
            IF check(p, "TOKEN_EQUAL")
            THEN then(next(p), <<F("parse_expression", <<>>), F("decl_end", <<i, name>>)>>)
            ELSE decl_end(with_out(skip(p), <<>>), i, name)
        \* Let name : type [= init] [;] as a statement and as the init part
        \* of a for loop
        let_decl(p, i, msg) ==
            decl_init(parse_type(consume(consume(p, "TOKEN_IDENTIFIER",
                                                 "Expected variable name"),
                                         "TOKEN_COLON", msg)),
                      i, cur_tok(p).lexeme)
        \* type name [= init] [;], behind the type
        cdecl(p, i) ==
            decl_init(consume(p, "TOKEN_IDENTIFIER", "Expected variable name"),
                      i, cur_tok(p).lexeme)
        if_end(p, i, cond, then_b, has_else) ==
            with_out(p, <<[Node("AST_IF_STMT", i) EXCEPT
                              !.condition = cond, !.body = then_b,
                              !.else_block = p.out, !.has_else = has_else]>>)
        if_then(p, i, cond) ==
            IF check(p, "TOKEN_ELSE")
            THEN IF check(next(p), "TOKEN_IF")
                 THEN then(skip(next(p)), <<F("parse_statement", <<>>),
                                            F("if_end", <<i, cond, p.out, TRUE>>)>>)
                 ELSE then(skip(next(p)), <<F("parse_block", <<>>),
                                            F("if_end", <<i, cond, p.out, TRUE>>)>>)
            ELSE if_end(with_out(skip(p), <<>>), i, cond, p.out, FALSE)
        if_cond(p, i) ==
            then(consume(p, "TOKEN_RPAREN", "Expected ')' after if condition"),
                 <<F("parse_block", <<>>), F("if_then", <<i, p.out>>)>>)
        while_end(p, i, cond) ==
            with_out(p, <<[Node("AST_WHILE_LOOP", i) EXCEPT
                              !.condition = cond, !.body = p.out]>>)
        while_cond(p, i) ==
            then(consume(p, "TOKEN_RPAREN", "Expected ')'"),
                 <<F("parse_block", <<>>), F("while_end", <<i, p.out>>)>>)
        for_end(p, i, init, cond, incr) ==
            with_out(p, <<[Node("AST_FOR_LOOP", i) EXCEPT
                              !.init = init, !.condition = cond,
                              !.increment = incr, !.body = p.out]>>)
        for_body(p, i, init, cond) ==
            then(consume(p, "TOKEN_RPAREN", "Expected ')'"),
                 <<F("parse_block", <<>>), F("for_end", <<i, init, cond, p.out>>)>>)
        for_incr(p, i, init, cond) ==
            IF ~check(p, "TOKEN_RPAREN")
            THEN then(skip(p), <<F("parse_expression", <<>>),
                                 F("for_body", <<i, init, cond>>)>>)
            ELSE for_body(with_out(skip(p), <<>>), i, init, cond)
        for_cond2(p, i, init) == for_incr(match(p, "TOKEN_SEMICOLON"), i, init, p.out)
        for_cond(p, i) ==
            IF ~check(p, "TOKEN_SEMICOLON")
            THEN then(skip(p), <<F("parse_expression", <<>>), F("for_cond2", <<i, p.out>>)>>)
            ELSE for_cond2(with_out(skip(p), <<>>), i, p.out)
        \* the match behind an expression in the init part
        for_semi(p) == match(p, "TOKEN_SEMICOLON")
        for_init(p, i) ==
            IF check(p, "TOKEN_LET")
            THEN let_decl(then(next(p), <<F("for_cond", <<i>>)>>), i, "Expected ':'")
            ELSE IF is_c_style_var_decl(p)
                 THEN cdecl(parse_type(then(skip(p), <<F("for_cond", <<i>>)>>)), i)
                 ELSE IF ~check(p, "TOKEN_SEMICOLON")
                      THEN then(skip(p), <<F("parse_expression", <<>>),
                                           F("for_semi", <<>>), F("for_cond", <<i>>)>>)
                      ELSE for_cond(with_out(next(p), <<>>), i)
        ret_end(p, i) ==
            with_out(match(p, "TOKEN_SEMICOLON"),
                     <<[Node("AST_RETURN", i) EXCEPT !.kids = p.out]>>)
        \* an expression statement; on NULL: "skip bad token"
        expr_stmt(p) ==
            IF p.out = <<>> THEN [p EXCEPT !.current = @ + 1]
            ELSE match(p, "TOKEN_SEMICOLON")
        parse_statement(p) ==
            CASE check(p, "TOKEN_IMPORT") ->
                    import_name(consume(next(p), "TOKEN_LESS", "Expected '<' after Import"),
                                idx(p))
              [] check(p, "TOKEN_LET") ->
                    let_decl(next(p), idx(p), "Expected ':' after variable name")
              [] ~check(p, "TOKEN_LET") /\ is_c_style_var_decl(p) ->
                    cdecl(parse_type(skip(p)), idx(p))
              [] check(p, "TOKEN_IF") ->
                    then(consume(next(p), "TOKEN_LPAREN", "Expected '(' after if"),
                         <<F("parse_expression", <<>>), F("if_cond", <<idx(p)>>)>>)
              [] check(p, "TOKEN_WHILE") ->
                    then(consume(next(p), "TOKEN_LPAREN", "Expected '('"),
                         <<F("parse_expression", <<>>), F("while_cond", <<idx(p)>>)>>)
              [] check(p, "TOKEN_FOR") ->
                    for_init(consume(next(p), "TOKEN_LPAREN", "Expected '('"), idx(p))
              [] check(p, "TOKEN_RETURN") ->
                    IF /\ ~check(next(p), "TOKEN_SEMICOLON")
                       /\ ~check(next(p), "TOKEN_RBRACE")
                       /\ ~at_end(next(p))
                    THEN then(skip(next(p)), <<F("parse_expression", <<>>),
                                               F("ret_end", <<idx(p)>>)>>)
                    ELSE ret_end(with_out(skip(next(p)), <<>>), idx(p))
              [] check(p, "TOKEN_BREAK") ->
                    with_out(match(next(p), "TOKEN_SEMICOLON"), <<Node("AST_BREAK", idx(p))>>)
              [] check(p, "TOKEN_CONTINUE") ->
                    with_out(match(next(p), "TOKEN_SEMICOLON"),
                             <<Node("AST_CONTINUE", idx(p))>>)
              [] OTHER ->
                    then(skip(p), <<F("parse_expression", <<>>), F("expr_stmt", <<>>)>>)

        \* ---- the loop of parser_parse; nodes is prog->nodes ----
        top_iter(p, nodes, before) ==
            IF p.current > before THEN then(p, <<F("top_loop", <<nodes>>)>>)
            ELSE with_out([p EXCEPT !.stuck = TRUE], nodes)
        top_next(p, nodes, before) == top_iter(p, nodes \o p.out, before)
        func_end(p, nodes, i, before, fname, params) ==
            top_iter(p, Append(nodes, FuncDecl(i, fname, params, p.out)), before)
        func_body(p, nodes, i, before, fname, params) ==
            then(consume(p, "TOKEN_RPAREN", "Expected ')'"),
                 <<F("parse_block", <<>>),
                   F("func_end", <<nodes, i, before, fname, params>>)>>)
        param_next(p, nodes, i, before, fname, params) ==
            IF check(p, "TOKEN_COMMA")
            THEN then(next(p), <<F("param_loop", <<nodes, i, before, fname, params>>)>>)
            ELSE func_body(skip(p), nodes, i, before, fname, params)
        param_loop(p, nodes, i, before, fname, params) ==
            param_next(parse_type(consume(consume(p, "TOKEN_IDENTIFIER",
                                                  "Expected parameter name"),
                                          "TOKEN_COLON", "Expected ':' after parameter name")),
                       nodes, i, before, fname, Append(params, cur_tok(p).lexeme))
        func_params(p, nodes, i, before, fname) ==
            IF ~check(p, "TOKEN_RPAREN")
            THEN param_loop(skip(p), nodes, i, before, fname, <<>>)
            ELSE func_body(skip(p), nodes, i, before, fname, <<>>)
        func_name(p, nodes, i, before) ==
            func_params(consume(consume(p, "TOKEN_IDENTIFIER", "Expected function name"),
                                "TOKEN_LPAREN", "Expected '(' after function name"),
                        nodes, i, before, cur_tok(p).lexeme)
        func_ret(p, nodes, i, before) ==
            func_name(IF check(p, "TOKEN_IDENTIFIER") /\ is_type_name(cur_tok(p).lexeme)
                      THEN parse_type(skip(p))
                      ELSE skip(p),
                      nodes, i, before)
        top_loop(p, nodes) ==
            IF at_end(p) THEN with_out(skip(p), nodes)
            ELSE IF check(p, "TOKEN_FUNC")
                 THEN func_ret(next(p), nodes, idx(p), skip(p).current)
                 ELSE then(skip(p), <<F("parse_statement", <<>>),
                                      F("top_next", <<nodes, skip(p).current>>)>>)

        \* the function f goes on, with what its callee left in p
        resume(p, f) ==
            LET v == f.v
            IN  CASE f.at = "parse_expression" -> parse_expression(p)
                  [] f.at = "parse_assignment" -> parse_assignment(p)
                  [] f.at = "assignment_tail" -> assignment_tail(p)
                  [] f.at = "parse_level" -> parse_level(p, v[1])
                  [] f.at = "level_loop" -> level_loop(p, v[1])
                  [] f.at = "make_binary" -> make_binary(p, v[1], v[2], v[3])
                  [] f.at = "make_unary" -> make_unary(p, v[1], v[2])
                  [] f.at = "parse_unary" -> parse_unary(p)
                  [] f.at = "parse_primary" -> parse_primary(p)
                  [] f.at = "call_tail" -> call_tail(p)
                  [] f.at = "call_first" -> call_first(p, v[1])
                  [] f.at = "colon_next" -> colon_next(p, v[1], v[2])
                  [] f.at = "comma_next" -> comma_next(p, v[1], v[2])
                  [] f.at = "index_close" -> index_close(p, v[1], v[2])
                  [] f.at = "paren_close" -> paren_close(p)
                  [] f.at = "parse_block" -> parse_block(p)
                  [] f.at = "block_next" -> block_next(p, v[1], v[2])
                  [] f.at = "parse_statement" -> parse_statement(p)
                  [] f.at = "decl_end" -> decl_end(p, v[1], v[2])
                  [] f.at = "if_cond" -> if_cond(p, v[1])
                  [] f.at = "if_then" -> if_then(p, v[1], v[2])
                  [] f.at = "if_end" -> if_end(p, v[1], v[2], v[3], v[4])
                  [] f.at = "while_cond" -> while_cond(p, v[1])
                  [] f.at = "while_end" -> while_end(p, v[1], v[2])
                  [] f.at = "for_semi" -> for_semi(p)
                  [] f.at = "for_cond" -> for_cond(p, v[1])
                  [] f.at = "for_cond2" -> for_cond2(p, v[1], v[2])
                  [] f.at = "for_body" -> for_body(p, v[1], v[2], v[3])
                  [] f.at = "for_end" -> for_end(p, v[1], v[2], v[3], v[4])
                  [] f.at = "ret_end" -> ret_end(p, v[1])
                  [] f.at = "expr_stmt" -> expr_stmt(p)
                  [] f.at = "top_loop" -> top_loop(p, v[1])
                  [] f.at = "top_next" -> top_next(p, v[1], v[2])
                  [] f.at = "param_loop" -> param_loop(p, v[1], v[2], v[3], v[4], v[5])
                  [] f.at = "func_end" -> func_end(p, v[1], v[2], v[3], v[4], v[5])
        \* the innermost waiting function goes on, at most 2^d times
        run(p, d) ==
            IF p.pending = <<>> THEN p
            ELSE IF d = 0 THEN resume([p EXCEPT !.pending = Tail(@)], Head(p.pending))
                 ELSE run(run(p, d - 1), d - 1)
        \* ... until none waits (groups of 1, 2, 4, ... keep the nesting of
        \* the evaluation logarithmic in the number of steps)
        until_return(p, d) ==
            IF p.pending = <<>> THEN p ELSE until_return(run(p, d), d + 1)
    IN  until_return(then(p0, <<F("top_loop", <<<<>>>>)>>), 0)


(***************************************************************************)
(* Source programs, as the parser delivers them.                           *)
(***************************************************************************)
Show(n, e) == Call(n, "print", <<e>>)

Programs ==
    <<
    \* 1
    \* print(1 + 2 * 3); print(7 - 2);
    << Show(1, BinOp(2, IntLit(3, 1), "+", BinOp(4, IntLit(5, 2), "*", IntLit(6, 3)))),
       Show(7, BinOp(8, IntLit(9, 7), "-", IntLit(10, 2))) >>,
    \* 2
    \* Let s = "hello"; print(s + ", world");
    << VarDecl(1, "s", StrLit(2, <<"h", "e", "l", "l", "o">>)),
       Show(3, BinOp(4, Ident(5, "s"), "+", StrLit(6, <<",", " ", "w", "o", "r", "l", "d">>))) >>,
    \* 3
    \* func add(a, b) { return a + b; }  func main() { print(add(40, 2)); }
    << FuncDecl(1, "add", <<"a", "b">>,
                << Return(2, BinOp(3, Ident(4, "a"), "+", Ident(5, "b"))) >>),
       FuncDecl(6, "main", <<>>,
                << Show(7, Call(8, "add", <<IntLit(9, 40), IntLit(10, 2)>>)) >>) >>,
    \* 4
    \* func fact(n) { if (n <= 1) { return 1; } return n * fact(n - 1); }
    \* func main() { print(fact(3)); }
    << FuncDecl(1, "fact", <<"n">>,
                << If(2, BinOp(3, Ident(4, "n"), "<=", IntLit(5, 1)), << Return(6, IntLit(7, 1)) >>),
                   Return(8, BinOp(9, Ident(10, "n"), "*",
                                   Call(11, "fact", <<BinOp(12, Ident(13, "n"), "-", IntLit(14, 1))>>))) >>),
       FuncDecl(15, "main", <<>>, << Show(16, Call(17, "fact", <<IntLit(18, 3)>>)) >>) >>,
    \* 5
    \* Let i = 0; while (i < 3) { print(i); i = i + 1; }
    << VarDecl(1, "i", IntLit(2, 0)),
       While(3, BinOp(4, Ident(5, "i"), "<", IntLit(6, 3)),
             << Show(7, Ident(8, "i")),
                Assign(9, "i", BinOp(10, Ident(11, "i"), "+", IntLit(12, 1))) >>) >>,
    \* 6
    \* Let g = "a"; func f() { g = "b"; return "x"; }  print(g + f());
    << VarDecl(1, "g", StrLit(2, <<"a">>)),
       FuncDecl(3, "f", <<>>, << Assign(4, "g", StrLit(5, <<"b">>)), Return(6, StrLit(7, <<"x">>)) >>),
       Show(8, BinOp(9, Ident(10, "g"), "+", Call(11, "f", <<>>))) >>,
    \* 7
    \* func f(p) { Let t = p + "!"; t = t + p; return t; }  print(f("q"));
    << FuncDecl(1, "f", <<"p">>,
                << VarDecl(2, "t", BinOp(3, Ident(4, "p"), "+", StrLit(5, <<"!">>))),
                   Assign(6, "t", BinOp(7, Ident(8, "t"), "+", Ident(9, "p"))),
                   Return(10, Ident(11, "t")) >>),
       Show(12, Call(13, "f", <<StrLit(14, <<"q">>)>>)) >>,
    \* 8
    \* func f() { Let s = "a" + "b"; return s; }  func id(p) { return p; }
    \* print(f()); print(id("q"));
    << FuncDecl(1, "f", <<>>,
                << VarDecl(2, "s", BinOp(3, StrLit(4, <<"a">>), "+", StrLit(5, <<"b">>))),
                   Return(6, Ident(7, "s")) >>),
       FuncDecl(8, "id", <<"p">>, << Return(9, Ident(10, "p")) >>),
       Show(11, Call(12, "f", <<>>)),
       Show(13, Call(14, "id", <<StrLit(15, <<"q">>)>>)) >>,
    \* 9
    \* func f(c) { if (c) { return; } }  print(f(0));
    << FuncDecl(1, "f", <<"c">>, << If(2, Ident(3, "c"), << Node("AST_RETURN", 4) >>) >>),
       Show(6, Call(7, "f", <<IntLit(8, 0)>>)) >>,
    \* 10
    \* Let i = 0; while (i < 3) { i = i + 1; break; }  print(i);
    << VarDecl(1, "i", IntLit(2, 0)),
       While(3, BinOp(4, Ident(5, "i"), "<", IntLit(6, 3)),
             << Assign(7, "i", BinOp(8, Ident(9, "i"), "+", IntLit(10, 1))), Node("AST_BREAK", 11) >>),
       Show(12, Ident(13, "i")) >>,
    \* 11
    \* Let n = 0; for (Let j = 0; j < 2; j = j + 1) { continue; n = n + 1; }  print(n);
    << VarDecl(1, "n", IntLit(2, 0)),
       For(3, <<VarDecl(4, "j", IntLit(5, 0))>>,
              <<BinOp(6, Ident(7, "j"), "<", IntLit(8, 2))>>,
              <<Assign(9, "j", BinOp(10, Ident(11, "j"), "+", IntLit(12, 1)))>>,
              << Node("AST_CONTINUE", 13), Assign(14, "n", BinOp(15, Ident(16, "n"), "+", IntLit(17, 1))) >>),
       Show(18, Ident(19, "n")) >>,
    \* 12
    \* Let k = 0; Let n = 0; while (k < 2) { k = k + 1; continue; n = n + 1; }  print(n);
    << VarDecl(1, "k", IntLit(2, 0)),
       VarDecl(3, "n", IntLit(4, 0)),
       While(5, BinOp(6, Ident(7, "k"), "<", IntLit(8, 2)),
             << Assign(9, "k", BinOp(10, Ident(11, "k"), "+", IntLit(12, 1))),
                Node("AST_CONTINUE", 13),
                Assign(14, "n", BinOp(15, Ident(16, "n"), "+", IntLit(17, 1))) >>),
       Show(18, Ident(19, "n")) >>,
    \* 13
    \* func main() { break; }
    << FuncDecl(1, "main", <<>>, << Node("AST_BREAK", 2) >>) >>,
    \* 14
    \* print(1 / 0); print(6 / 3); print(5 % 0); print(7 % 2);
    << Show(1, BinOp(2, IntLit(3, 1), "/", IntLit(4, 0))),
       Show(5, BinOp(6, IntLit(7, 6), "/", IntLit(8, 3))),
       Show(9, BinOp(10, IntLit(11, 5), "%", IntLit(12, 0))),
       Show(13, BinOp(14, IntLit(15, 7), "%", IntLit(16, 2))) >>,
    \* 15
    \* print(1.0 / 0.0); print(4.0 / 2.0);
    << Show(1, BinOp(2, FloatLit(3, 1), "/", FloatLit(4, 0))),
       Show(5, BinOp(6, FloatLit(7, 4), "/", FloatLit(8, 2))) >>,
    \* 16
    \* Let a = 1; print(a[0]); a[0] = 5;
    << VarDecl(1, "a", IntLit(2, 1)),
       Show(3, Index(4, Ident(5, "a"), IntLit(6, 0))),
       BinOp(7, Index(8, Ident(9, "a"), IntLit(10, 0)), "=", IntLit(11, 5)) >>,
    \* 17
    \* print(max("a" + "b")); print(max(1, 2)); print(max(2.0, 1)); print(toString(5));
    << Show(1, Call(2, "max", <<BinOp(3, StrLit(4, <<"a">>), "+", StrLit(5, <<"b">>))>>)),
       Show(6, Call(7, "max", <<IntLit(8, 1), IntLit(9, 2)>>)),
       Show(10, Call(11, "max", <<FloatLit(12, 2), IntLit(16, 1)>>)),
       Show(13, Call(14, "toString", <<IntLit(15, 5)>>)) >>,
    \* 18
    \* if (!(1 == 2) && (1 != 2 || false)) { print(-1); } else { print(2); }
    << IfElse(1, BinOp(2, UnaryOp(3, "!", BinOp(4, IntLit(5, 1), "==", IntLit(6, 2))), "&&",
                       BinOp(7, BinOp(8, IntLit(9, 1), "!=", IntLit(10, 2)), "||", [Node("AST_LITERAL", 11) EXCEPT !.value = value_bool(FALSE)])),
              << Show(12, UnaryOp(13, "-", IntLit(14, 1))) >>,
              << Show(15, IntLit(16, 2)) >>) >>,
    \* 19
    \* func f() { }  print(f);
    << FuncDecl(1, "f", <<>>, <<>>), Show(2, Ident(3, "f")) >>,
    \* 20
    \* Let x = 7; return x;
    << VarDecl(1, "x", IntLit(2, 7)), Return(3, Ident(4, "x")) >>,
    \* 21
    \* exit(3); print(1);
    << Call(1, "exit", <<IntLit(2, 3)>>), Show(3, IntLit(4, 1)) >>,
    \* 22
    << >>,
    \* 23
    \* Let x = 0; exit(x = 3);
    << VarDecl(1, "x", IntLit(2, 0)),
       Call(3, "exit", <<Assign(4, "x", IntLit(5, 3))>>) >>,
    \* 24
    \* Let x = 1; x(5);
    << VarDecl(1, "x", IntLit(2, 1)),
       Call(3, "x", <<IntLit(4, 5)>>) >>,
    \* 25
    \* Let a = 1; Let k = 0; while (1 == 1) { print(a[0], k = print()); }
    << VarDecl(1, "a", IntLit(2, 1)),
       VarDecl(3, "k", IntLit(4, 0)),
       While(5, BinOp(6, IntLit(7, 1), "==", IntLit(8, 1)),
             << Call(9, "print", << Index(10, Ident(11, "a"), IntLit(12, 0)),
                                    Assign(13, "k", Call(14, "print", <<>>)) >>) >>) >>,
    \* 26
    \* func f(n) { Let i = 0;
    \*             while (i < n) { i = i + 1; if (i == 1) { } else { } } }
    \* f(2);
    << FuncDecl(1, "f", <<"n">>,
                << VarDecl(2, "i", IntLit(3, 0)),
                   While(4, BinOp(5, Ident(6, "i"), "<", Ident(7, "n")),
                         << Assign(8, "i", BinOp(9, Ident(10, "i"), "+", IntLit(11, 1))),
                            IfElse(12, BinOp(13, Ident(14, "i"), "==", IntLit(15, 1)),
                                   << >>, << >>) >>) >>),
       Call(16, "f", <<IntLit(17, 2)>>) >>,
    \* 27
    \* func f() { return 1; }  func f() { return 2; }  print(f());
    << FuncDecl(1, "f", <<>>, << Return(2, IntLit(3, 1)) >>),
       FuncDecl(4, "f", <<>>, << Return(5, IntLit(6, 2)) >>),
       Show(7, Call(8, "f", <<>>)) >>,
    \* 28
    \* assert(1 == 1); assert(1 == 2, "no"); print(1);
    << Call(1, "assert", <<BinOp(2, IntLit(3, 1), "==", IntLit(4, 1))>>),
       Call(5, "assert", <<BinOp(6, IntLit(7, 1), "==", IntLit(8, 2)), StrLit(9, <<"n", "o">>)>>),
       Show(10, IntLit(11, 1)) >>,
    \* 29
    \* print(); printf(); printf(5); max(1, 2, 3);
    << Call(1, "print", <<>>),
       Call(2, "printf", <<>>),
       Call(3, "printf", <<IntLit(4, 5)>>),
       Call(5, "max", <<IntLit(6, 1), IntLit(7, 2), IntLit(8, 3)>>) >>,
    \* 30
    \* printf("n=%d\n": 4, 5); print(toString("a" + "b")); max();
    << Call(1, "printf", <<StrLit(2, <<"n", "=", "%", "d", "\\", "n">>), IntLit(3, 4), IntLit(4, 5)>>),
       Show(5, Call(6, "toString", <<BinOp(7, StrLit(8, <<"a">>), "+", StrLit(9, <<"b">>))>>)),
       Call(10, "max", <<>>) >>,
    \* 31
    \* Let s = "v"; print(max(s)); print(s);
    << VarDecl(1, "s", StrLit(2, <<"v">>)),
       Show(3, Call(4, "max", <<Ident(5, "s")>>)),
       Show(6, Ident(7, "s")) >>,
    \* 32
    \* Let x = 1; print(y); g(x);
    << VarDecl(1, "x", IntLit(2, 1)),
       Show(3, Ident(4, "y")),
       Call(5, "g", <<Ident(6, "x")>>) >>,
    \* 33
    \* func f(a) { Let a = 1; return a; }  print(f());
    << FuncDecl(1, "f", <<"a">>, << VarDecl(2, "a", IntLit(3, 1)), Return(4, Ident(5, "a")) >>),
       Show(6, Call(7, "f", <<>>)) >>,
    \* 34
    \* for (Let j = 0; j < 1; j = j + 1) { }  if (1 == 1) { }
    << For(1, <<VarDecl(2, "j", IntLit(3, 0))>>,
              <<BinOp(4, Ident(5, "j"), "<", IntLit(6, 1))>>,
              <<Assign(7, "j", BinOp(8, Ident(9, "j"), "+", IntLit(10, 1)))>>,
              << >>),
       If(11, BinOp(12, IntLit(13, 1), "==", IntLit(14, 1)), << >>) >>,
    \* 35
    \* Let a = 1; print(a[1]);
    << VarDecl(1, "a", IntLit(2, 1)),
       Show(3, Index(4, Ident(5, "a"), IntLit(6, 1))) >>,
    \* 36
    \* Let x = 1; Let x = 2; if (1 == 1) { Let x = 3; }
    << VarDecl(1, "x", IntLit(2, 1)),
       VarDecl(3, "x", IntLit(4, 2)),
       If(5, BinOp(6, IntLit(7, 1), "==", IntLit(8, 1)),
          << VarDecl(9, "x", IntLit(10, 3)) >>) >>,
    \* 37
    \* print(!f()); func f(a) { return a; }
    << Show(1, UnaryOp(2, "!", Call(3, "f", <<>>))),
       FuncDecl(4, "f", <<"a">>, << Return(5, Ident(6, "a")) >>) >>,
    \* 38
    \* func f(a) { print(a); a = 7; }  f(1); print(!f());
    << FuncDecl(1, "f", <<"a">>,
                << Show(2, Ident(3, "a")),
                   Assign(4, "a", IntLit(5, 7)) >>),
       Call(6, "f", <<IntLit(7, 1)>>),
       Show(8, UnaryOp(9, "!", Call(10, "f", <<>>))) >>,
    \* 39
    \* print(toBool(toString(true)), toBool(toString(false)));
    << Call(1, "print",
            << Call(2, "toBool", <<Call(3, "toString",
                        <<[Node("AST_LITERAL", 4) EXCEPT !.value = value_bool(TRUE)]>>)>>),
               Call(5, "toBool", <<Call(6, "toString",
                        <<[Node("AST_LITERAL", 7) EXCEPT !.value = value_bool(FALSE)]>>)>>) >>) >>,
    \* 40
    \* print(toInt(toString(0)), toInt(toString(-120)), toInt(toString(1234567890)));
    << Call(1, "print",
            << Call(2, "toInt", <<Call(3, "toString", <<IntLit(4, 0)>>)>>),
               Call(5, "toInt", <<Call(6, "toString",
                                       <<UnaryOp(7, "-", IntLit(8, 120))>>)>>),
               Call(9, "toInt", <<Call(10, "toString", <<IntLit(11, 1234567890)>>)>>) >>) >>,
    \* 41
    \* "a" + "b";
    << BinOp(1, StrLit(2, <<"a">>), "+", StrLit(3, <<"b">>)) >>,
    \* 42
    \* print(1); func main() { print(2); } print(3);
    << Show(1, IntLit(2, 1)),
       FuncDecl(3, "main", <<>>, << Show(4, IntLit(5, 2)) >>),
       Show(6, IntLit(7, 3)) >>,
    \* 43
    \* func max(a, b) { return 0; }  print(max(1, 2));
    << FuncDecl(1, "max", <<"a", "b">>, << Return(2, IntLit(3, 0)) >>),
       Show(4, Call(5, "max", <<IntLit(6, 1), IntLit(7, 2)>>)) >>,
    \* 44
    \* func a() { return b(); }  func b() { return 1; }  print(a());
    << FuncDecl(1, "a", <<>>, << Return(2, Call(3, "b", <<>>)) >>),
       FuncDecl(4, "b", <<>>, << Return(5, IntLit(6, 1)) >>),
       Show(7, Call(8, "a", <<>>)) >>,
    \* 45
    \* func f(p) { Let x = 1; if (p == 0) { Let x = 2; x = 3; }
    \*             if (p == 0) { Let y = 4; } return x; }
    \* print(f(0));
    << FuncDecl(1, "f", <<"p">>,
                << VarDecl(2, "x", IntLit(3, 1)),
                   If(4, BinOp(5, Ident(6, "p"), "==", IntLit(7, 0)),
                      << VarDecl(8, "x", IntLit(9, 2)), Assign(10, "x", IntLit(11, 3)) >>),
                   If(12, BinOp(13, Ident(14, "p"), "==", IntLit(15, 0)),
                      << VarDecl(16, "y", IntLit(17, 4)) >>),
                   Return(18, Ident(19, "x")) >>),
       Show(20, Call(21, "f", <<IntLit(22, 0)>>)) >>,
    \* 46
    \* Let x = 1; if (1 == 1) { Let x = 2; } print(x);
    << VarDecl(1, "x", IntLit(2, 1)),
       If(3, BinOp(4, IntLit(5, 1), "==", IntLit(6, 1)), << VarDecl(7, "x", IntLit(8, 2)) >>),
       Show(9, Ident(10, "x")) >>,
    \* 47
    \* func f(a) { print(a[0]); return 1; }  print(f(5));
    << FuncDecl(1, "f", <<"a">>,
                << Show(2, Index(3, Ident(4, "a"), IntLit(5, 0))),
                   Return(6, IntLit(7, 1)) >>),
       Show(8, Call(9, "f", <<IntLit(10, 5)>>)) >>,
    \* 48
    \* Let g = "a";  func f(s) { Let t = s; return 0; }  f(g);
    << VarDecl(1, "g", StrLit(2, "a")),
       FuncDecl(3, "f", <<"s">>,
                << VarDecl(4, "t", Ident(5, "s")),
                   Return(6, IntLit(7, 0)) >>),
       Call(8, "f", <<Ident(9, "g")>>) >>
    >>


(***************************************************************************)
(* State                                                                   *)
(***************************************************************************)
VARIABLES
    src,          \* which source program the process was started on
    stage,        \* position in main(): "lexed", "aborted" (ParserSpec only), "parsed", "checked", "generated", "running",
                  \* "returned" (vm_execute has returned), "exited"
    bytecode,     \* the chunk
    errors,       \* the diagnostic collector
    heap,         \* string buffers
    stack,        \* vm->stack[0 .. stack_top - 1]
    frames,       \* vm->frames[0 .. frame_top - 1]
    globals,      \* vm->globals: [slots (global_capacity of them), count]
    pc,           \* vm->pc
    halted,       \* vm->halted
    exit_code,    \* vm->exit_code
    double_free,  \* whether free() was ever called on a released buffer
    output,       \* what print wrote, one entry per call
    status,       \* exit status of the process, -1 while it runs
    parser        \* the Parser object main hands to parser_parse

vars == <<parser, src, stage, bytecode, errors, heap, stack, frames, globals, pc,
          halted, exit_code, double_free, output, status>>

M == [stack |-> stack, heap |-> heap, halted |-> halted, exit_code |-> exit_code,
      double_free |-> double_free]

Commit(m) ==
    /\ stack' = m.stack
    /\ heap' = m.heap
    /\ halted' = m.halted
    /\ exit_code' = m.exit_code
    /\ double_free' = m.double_free

\* a loop that goes on dispatching after the halted flag is set
RunningThroughHalt == stage = "running" /\ pc < instruction_count(bytecode)

\* while (!vm->halted && vm->pc < instruction_count)
Running == stage = "running" /\ ~halted /\ pc < instruction_count(bytecode)

Ins == bytecode.instructions[pc + 1]

At(op) == Running /\ Ins.opcode = op

Init ==
    /\ src \in 1..Len(Programs)
    /\ stage = "parsed"
    /\ bytecode = bytecode_create
    /\ errors = <<>>
    /\ heap = <<>>
    /\ stack = <<>>
    /\ frames = <<>>
    /\ globals = [slots |-> <<>>, count |-> 0]
    /\ pc = 0
    /\ halted = FALSE
    /\ exit_code = 0
    /\ double_free = FALSE
    /\ output = <<>>
    /\ status = -1
    /\ parser = parser_create(<<>>, <<>>)

(***************************************************************************)
(* main(): generation, the gate after it, VM construction                  *)
(***************************************************************************)
\* type checking and the gate after it:
\* if (!type_check_ok || error_has_errors(errors)) { ...; return 1; }
TypeCheck ==
    /\ stage = "parsed"
    /\ errors' = type_checker_check(errors, Programs[src])
    /\ IF error_has_errors(errors')
       THEN stage' = "exited" /\ status' = 1
       ELSE stage' = "checked" /\ status' = status
    /\ UNCHANGED <<parser, src, bytecode, heap, stack, frames, globals, pc, halted, exit_code,
                   double_free, output>>

CodegenGenerate ==
    /\ stage = "checked"
    /\ LET g == codegen_generate(codegen_create(heap), Programs[src]) IN
        /\ bytecode' = g.bytecode
        /\ errors' = g.errors
        /\ heap' = g.heap
    /\ stage' = "generated"
    /\ UNCHANGED <<parser, src, stack, frames, globals, pc, halted, exit_code, double_free,
                   output, status>>

RECURSIVE FreeAll(_, _, _)
\* for (i = ...; i < n; i++) value_free(vs[i]), from element i on
FreeAll(m, vs, i) == IF i > Len(vs) THEN m ELSE FreeAll(Free(m, vs[i]), vs, i + 1)

\* if (!codegen_ok || error_has_errors(errors)) { ...; bytecode_free; return 1; }
PipelineAbort ==
    /\ stage = "generated"
    /\ error_has_errors(errors)
    /\ Commit(FreeAll(M, bytecode.constants, 1))
    /\ stage' = "exited"
    /\ status' = 1
    /\ UNCHANGED <<parser, src, bytecode, errors, frames, globals, pc, output>>

VmCreate ==
    /\ stage = "generated"
    /\ ~error_has_errors(errors)
    /\ stack' = <<>>
    /\ frames' = <<>>
    /\ globals' = [slots |-> <<>>, count |-> 0]
    /\ pc' = 0
    /\ halted' = FALSE
    /\ exit_code' = 0
    /\ stage' = "running"
    /\ UNCHANGED <<parser, src, bytecode, errors, heap, double_free, output, status>>

(***************************************************************************)
(* vm_execute: one action per opcode case                                  *)
(***************************************************************************)
\* the top n values of the stack: what an instruction with n operands pops
TopN(n) == SubSeq(stack, IF Len(stack) >= n THEN Len(stack) - n + 1 ELSE 1, Len(stack))

\* a case that works on the stack alone and ends in break (vm->pc++)
StackStep(m) ==
    /\ Commit(m)
    /\ pc' = pc + 1
    /\ UNCHANGED <<parser, src, stage, bytecode, errors, frames, globals, output, status>>

\* a load that hands out the slot's own value, ownership flag included
LoadViewAlias(v) == v

\* the view of a string-typed slot or constant that a push hands out
LoadView(v) == IF v.type = "STRING" THEN value_string_borrow(v.buf) ELSE v

OpPushConst ==
    /\ At("OP_PUSH_CONST")
    /\ StackStep(IF Ins.operand1 < Len(bytecode.constants)
                 THEN vm_push(M, LoadView(bytecode.constants[Ins.operand1 + 1]))
                 ELSE vm_push(M, value_null))

OpPop ==
    /\ At("OP_POP")
    /\ StackStep(vm_pop_free(M))

OpLoadVar ==
    /\ At("OP_LOAD_VAR")
    /\ StackStep(IF Len(frames) > 0 /\ Ins.operand1 < current_frame(frames).local_count
                 THEN vm_push(M, LoadView(current_frame(frames).locals[Ins.operand1 + 1]))
                 ELSE vm_push(M, value_null))

OpStoreVar ==
    /\ At("OP_STORE_VAR")
    /\ \E u \in UChoices(heap, TopN(1)) :
        IF Len(frames) > 0
        THEN LET p  == vm_pop(M)
                 oc == value_own_copy(p.m.heap, p.val, Rd(p.m.heap, p.val, u))
                 f  == ensure_local(current_frame(frames), Ins.operand1) IN
             /\ Commit(Free([p.m EXCEPT !.heap = oc.heap], f.locals[Ins.operand1 + 1]))
             /\ frames' = [frames EXCEPT ![Len(frames)] =
                              [f EXCEPT !.locals[Ins.operand1 + 1] = oc.val]]
        ELSE /\ Commit(vm_pop_free(M))
             /\ frames' = frames
    /\ pc' = pc + 1
    /\ UNCHANGED <<parser, src, stage, bytecode, errors, globals, output, status>>

OpLoadGlobal ==
    /\ At("OP_LOAD_GLOBAL")
    /\ globals' = ensure_global(globals, Ins.operand1)
    /\ Commit(vm_push(M, LoadView(globals'.slots[Ins.operand1 + 1])))
    /\ pc' = pc + 1
    /\ UNCHANGED <<parser, src, stage, bytecode, errors, frames, output, status>>

OpStoreGlobal ==
    /\ At("OP_STORE_GLOBAL")
    /\ \E u \in UChoices(heap, TopN(1)) :
        LET p  == vm_pop(M)
            oc == value_own_copy(p.m.heap, p.val, Rd(p.m.heap, p.val, u))
            g1 == ensure_global(globals, Ins.operand1) IN
        /\ Commit(Free([p.m EXCEPT !.heap = oc.heap], g1.slots[Ins.operand1 + 1]))
        /\ globals' = [g1 EXCEPT !.slots[Ins.operand1 + 1] = oc.val]
    /\ pc' = pc + 1
    /\ UNCHANGED <<parser, src, stage, bytecode, errors, frames, output, status>>

\* (a.type == VALUE_FLOAT) ? a.data.float_val : (double)a.data.int_val
AsDouble(v) == IF v.type = "FLOAT" THEN v.num ELSE IntVal(v)

\* both operands Int: the integer result; otherwise the promoted doubles
Arith(a, b, oi, of) ==
    IF a.type = "INT" /\ b.type = "INT" THEN value_int(oi) ELSE value_float(of)

OpAdd ==
    /\ At("OP_ADD")
    /\ \E u \in UChoices(heap, TopN(2)) :
        LET p == Pop2(M) IN
        IF p.a.type = "STRING" /\ p.b.type = "STRING"
        THEN StackStep(Finish2([p EXCEPT !.m.heap = Alloc(@, Rd(p.m.heap, p.a, u)
                                                             \o Rd(p.m.heap, p.b, u))],
                               value_string(NewBuf(p.m.heap))))
        ELSE StackStep(Finish2(p, Arith(p.a, p.b, p.a.num + p.b.num,
                                        AsDouble(p.a) + AsDouble(p.b))))

\* ARITH_OP for OP_SUBTRACT and OP_MULTIPLY
OpArith ==
    /\ Running
    /\ Ins.opcode \in {"OP_SUBTRACT", "OP_MULTIPLY"}
    /\ LET p == Pop2(M) IN
       StackStep(Finish2(p, IF Ins.opcode = "OP_SUBTRACT"
                            THEN Arith(p.a, p.b, p.a.num - p.b.num,
                                       AsDouble(p.a) - AsDouble(p.b))
                            ELSE Arith(p.a, p.b, p.a.num * p.b.num,
                                       AsDouble(p.a) * AsDouble(p.b))))

\* bool bz = (b.type == VALUE_FLOAT) ? (b.data.float_val == 0.0) : (b.data.int_val == 0)
DivisorIsZero(b) == IF b.type = "FLOAT" THEN b.num = 0 ELSE IntVal(b) = 0

\* the OP_DIVIDE case on machine m
op_divide(m) ==
    LET p == Pop2(m) IN
    IF DivisorIsZero(p.b) THEN Finish2(p, value_null)
    ELSE Finish2(p, Arith(p.a, p.b, CDiv(p.a.num, p.b.num),
                          CDiv(AsDouble(p.a), AsDouble(p.b))))

OpDivide ==
    /\ At("OP_DIVIDE")
    /\ StackStep(op_divide(M))

OpModulo ==
    /\ At("OP_MODULO")
    /\ LET p == Pop2(M) IN
       StackStep(Finish2(p, IF p.a.type = "INT" /\ p.b.type = "INT" /\ p.b.num # 0
                            THEN value_int(CMod(p.a.num, p.b.num))
                            ELSE value_null))

OpNegate ==
    /\ At("OP_NEGATE")
    /\ LET p == vm_pop(M) IN
       StackStep(vm_push(Free(p.m, p.val),
                         CASE p.val.type = "INT"   -> value_int(-p.val.num)
                           [] p.val.type = "FLOAT" -> value_float(-p.val.num)
                           [] OTHER                -> value_null))

OpNot ==
    /\ At("OP_NOT")
    /\ \E u \in UChoices(heap, TopN(1)) :
        LET p == vm_pop(M) IN
        StackStep(vm_push(Free(p.m, p.val),
                          value_bool(~value_is_truthy(p.val, Rd(p.m.heap, p.val, u)))))

\* the comparison of OP_EQUAL on operands of the same type
SameTypeEqual(a, b, sa, sb) ==
    CASE a.type = "STRING" -> IF a.buf # 0 /\ b.buf # 0 THEN sa = sb ELSE a.buf = b.buf
      [] a.type = "NULL"   -> TRUE
      [] OTHER             -> a.num = b.num

\* OP_EQUAL and OP_NOT_EQUAL
OpEqual ==
    /\ Running
    /\ Ins.opcode \in {"OP_EQUAL", "OP_NOT_EQUAL"}
    /\ \E u \in UChoices(heap, TopN(2)) :
        LET p  == Pop2(M)
            eq == p.a.type = p.b.type
                  /\ SameTypeEqual(p.a, p.b, Rd(p.m.heap, p.a, u), Rd(p.m.heap, p.b, u)) IN
        StackStep(Finish2(p, value_bool(IF Ins.opcode = "OP_EQUAL" THEN eq ELSE ~eq)))

Cmp(op, x, y) ==
    CASE op = "OP_LESS"          -> x < y
      [] op = "OP_LESS_EQUAL"    -> x <= y
      [] op = "OP_GREATER"       -> x > y
      [] OTHER                   -> x >= y

\* CMP_OP
OpCompare ==
    /\ Running
    /\ Ins.opcode \in {"OP_LESS", "OP_LESS_EQUAL", "OP_GREATER", "OP_GREATER_EQUAL"}
    /\ LET p == Pop2(M) IN
       StackStep(Finish2(p, value_bool(IF p.a.type = "INT" /\ p.b.type = "INT"
                                       THEN Cmp(Ins.opcode, p.a.num, p.b.num)
                                       ELSE Cmp(Ins.opcode, AsDouble(p.a), AsDouble(p.b)))))

\* OP_AND and OP_OR
OpLogical ==
    /\ Running
    /\ Ins.opcode \in {"OP_AND", "OP_OR"}
    /\ \E u \in UChoices(heap, TopN(2)) :
        LET p  == Pop2(M)
            ta == value_is_truthy(p.a, Rd(p.m.heap, p.a, u))
            tb == value_is_truthy(p.b, Rd(p.m.heap, p.b, u)) IN
        StackStep(Finish2(p, value_bool(IF Ins.opcode = "OP_AND" THEN ta /\ tb
                                        ELSE ta \/ tb)))

OpJump ==
    /\ At("OP_JUMP")
    /\ pc' = Ins.operand1
    /\ UNCHANGED <<parser, src, stage, bytecode, errors, heap, stack, frames, globals, halted,
                   exit_code, double_free, output, status>>

OpJumpIfFalse ==
    /\ At("OP_JUMP_IF_FALSE")
    /\ \E u \in UChoices(heap, TopN(1)) :
        LET p == vm_pop(M) IN
        /\ Commit(Free(p.m, p.val))
        /\ pc' = IF ~value_is_truthy(p.val, Rd(p.m.heap, p.val, u))
                 THEN Ins.operand1 ELSE pc + 1
    /\ UNCHANGED <<parser, src, stage, bytecode, errors, frames, globals, output, status>>

(***************************************************************************)
(* Calls                                                                   *)
(***************************************************************************)
RECURSIVE BindArgs(_, _, _, _)
\* for (i = argc - 1; i >= 0; i--) if (stack_top > 0) locals[i] = own_copy(pop)
\* from C index i down; yields [m, locals]
BindArgs(m, locals, i, u) ==
    IF i < 0 THEN [m |-> m, locals |-> locals]
    ELSE IF Len(m.stack) > 0
         THEN LET p  == vm_pop(m)
                  oc == value_own_copy(p.m.heap, p.val, Rd(p.m.heap, p.val, u)) IN
              BindArgs([p.m EXCEPT !.heap = oc.heap],
                       [locals EXCEPT ![i + 1] = oc.val], i - 1, u)
         ELSE BindArgs(m, locals, i - 1, u)

\* a frame whose locals are handed out as allocated, without the clearing
\* loop: every slot holds whatever an earlier frame left there
NewFrameUncleared(fe, argc, ip, d) ==
    [return_ip |-> ip + 1, stack_base |-> d,
     locals |-> [i \in 1..(fe.local_count + argc + LOCAL_SLACK) |-> value_int(7)],
     local_count |-> fe.local_count + argc + LOCAL_SLACK]

\* the frame OP_CALL pushes for function entry fe, before its arguments are
\* bound; d is vm->stack_top when the instruction starts
NewFrame(fe, argc, ip, d) ==
    LET local_cap == IF fe.local_count > argc THEN fe.local_count + LOCAL_SLACK
                     ELSE argc + LOCAL_SLACK IN
    [return_ip |-> ip + 1, stack_base |-> d,
     locals |-> [i \in 1..local_cap |-> value_null], local_count |-> local_cap]

\* a rejection that also takes one argument off the stack
CallFaultPops(m) ==
    [m EXCEPT !.halted = TRUE, !.exit_code = 1, !.stack = SubSeq(@, 1, Len(@) - 1)]

\* OP_CALL rejecting the call: "invalid function index" or "call stack
\* overflow"; vm->halted = true; vm->exit_code = 1; break;
CallFault(m) == [m EXCEPT !.halted = TRUE, !.exit_code = 1]

OpCall ==
    /\ At("OP_CALL")
    /\ IF Ins.operand1 >= Len(bytecode.functions) \/ Len(frames) >= VM_FRAMES_MAX
       THEN /\ Commit(CallFault(M))
            /\ pc' = pc + 1
            /\ frames' = frames
       ELSE \E u \in UChoices(heap, TopN(Ins.operand2)) :
            LET fe    == bytecode.functions[Ins.operand1 + 1]
                frame == NewFrame(fe, Ins.operand2, pc, Len(stack))
                bound == BindArgs(M, frame.locals, Ins.operand2 - 1, u) IN
            /\ Commit(bound.m)
            /\ frames' = Append(frames, [frame EXCEPT !.locals = bound.locals])
            /\ pc' = fe.start_ip
    /\ UNCHANGED <<parser, src, stage, bytecode, errors, globals, output, status>>

\* a return that pushes the value as it stood on the stack, with no copy
ReturnRaw(h, ret_raw, u) == [val |-> ret_raw, heap |-> h]

\* step 2 of OP_RETURN: the value handed to the caller, made while the
\* frame's locals are still allocated; yields [val, heap]
ReturnOwned(h, ret_raw, u) == value_own_copy(h, ret_raw, Rd(h, ret_raw, u))

RECURSIVE DiscardAbove(_, _)
\* while (vm->stack_top > frame->stack_base) vm_pop_free(vm)
DiscardAbove(m, base) ==
    IF Len(m.stack) > base THEN DiscardAbove(vm_pop_free(m), base) ELSE m

\* OP_RETURN inside a call: m has the return value ret_raw popped
ReturnToCaller(m, frame, ret_raw, u) ==
    LET oc == ReturnOwned(m.heap, ret_raw, u) IN
    vm_push(DiscardAbove(FreeAll([m EXCEPT !.heap = oc.heap],
                                 SubSeq(frame.locals, 1, frame.local_count), 1),
                         frame.stack_base),
            oc.val)

OpReturn ==
    /\ At("OP_RETURN")
    /\ \E u \in UChoices(heap, TopN(1)) :
        LET p == vm_pop(M) IN
        IF Len(frames) = 0
        THEN /\ Commit([Free(p.m, p.val) EXCEPT
                           !.exit_code = IF p.val.type = "INT" THEN p.val.num ELSE @,
                           !.halted = TRUE])
             /\ frames' = frames
             /\ pc' = pc + 1
        ELSE /\ Commit(ReturnToCaller(p.m, current_frame(frames), p.val, u))
             /\ frames' = SubSeq(frames, 1, Len(frames) - 1)
             /\ pc' = current_frame(frames).return_ip
    /\ UNCHANGED <<parser, src, stage, bytecode, errors, globals, output, status>>

OpHalt ==
    /\ At("OP_HALT")
    /\ halted' = TRUE
    /\ exit_code' = IF Len(stack) > 0 /\ stack[Len(stack)].type \in {"INT", "FLOAT"}
                    THEN stack[Len(stack)].num
                    ELSE IF Len(stack) > 0 /\ stack[Len(stack)].type = "BOOL"
                         THEN (IF stack[Len(stack)].num # 0 THEN 1 ELSE 0)
                         ELSE exit_code
    /\ pc' = pc + 1
    /\ UNCHANGED <<parser, src, stage, bytecode, errors, heap, stack, frames, globals,
                   double_free, output, status>>

(***************************************************************************)
(* Built-ins.  Text is a sequence of characters.                           *)
(***************************************************************************)
DigitChars == <<"0", "1", "2", "3", "4", "5", "6", "7", "8", "9">>

RECURSIVE Digits(_)
\* "%ld" of n; also "%g" of an integral double of fewer than seven digits
Digits(n) ==
    IF n < 0 THEN <<"-">> \o Digits(-n)
    ELSE IF n < 10 THEN <<DigitChars[n + 1]>>
    ELSE Digits(n \div 10) \o <<DigitChars[(n % 10) + 1]>>

RECURSIVE ParseDigits(_, _, _)
\* the value of the decimal digits of s from position i on, after acc
ParseDigits(s, i, acc) ==
    IF i > Len(s) \/ ~(\E d \in 1..10 : DigitChars[d] = s[i]) THEN acc
    ELSE ParseDigits(s, i + 1, acc * 10 + (CHOOSE d \in 1..10 : DigitChars[d] = s[i]) - 1)

\* a conversion that reads digits only and stops at a sign
strtoll_unsigned(s) == ParseDigits(s, 1, 0)

\* strtoll(s, NULL, 10) on text without leading blanks
strtoll(s) ==
    IF Len(s) > 0 /\ s[1] = "-" THEN -ParseDigits(s, 2, 0)
    ELSE IF Len(s) > 0 /\ s[1] = "+" THEN ParseDigits(s, 2, 0)
    ELSE ParseDigits(s, 1, 0)

\* value_to_string, on a string whose bytes are s
value_to_string(v, s) ==
    CASE v.type = "INT"    -> Digits(v.num)
      [] v.type = "FLOAT"  -> Digits(v.num)
      [] v.type = "STRING" -> (IF v.buf # 0 THEN s ELSE <<>>)
      [] v.type = "BOOL"   -> (IF v.num # 0 THEN <<"t", "r", "u", "e">>
                               ELSE <<"f", "a", "l", "s", "e">>)
      [] OTHER             -> <<"n", "u", "l", "l">>

to_double(v) ==
    CASE v.type \in {"INT", "FLOAT"} -> v.num
      [] v.type = "BOOL" -> (IF v.num # 0 THEN 1 ELSE 0)
      [] OTHER -> 0

to_int64(v, s) ==
    CASE v.type \in {"INT", "FLOAT"} -> v.num
      [] v.type = "BOOL" -> (IF v.num # 0 THEN 1 ELSE 0)
      [] v.type = "STRING" -> (IF v.buf # 0 THEN strtoll(s) ELSE 0)
      [] OTHER -> 0

\* an argument fetch that takes one value fewer than asked for
pop_args_short(m, argc) ==
    [m |-> m, args |-> [i \in 1..(IF argc > 0 THEN argc ELSE 0) |-> value_null]]

RECURSIVE pop_args(_, _)
\* for (i = argc - 1; i >= 0; i--) args[i] = vm_pop(vm); yields [m, args]
pop_args(m, argc) ==
    IF argc <= 0 THEN [m |-> m, args |-> <<>>]
    ELSE LET p == vm_pop(m)
             r == pop_args(p.m, argc - 1) IN
         [m |-> r.m, args |-> Append(r.args, p.val)]

\* the text print writes for one argument
PrintArg(v, s) ==
    CASE v.type = "INT"    -> Digits(v.num)
      [] v.type = "FLOAT"  -> Digits(v.num)
      [] v.type = "STRING" -> (IF v.buf # 0 THEN s ELSE <<>>)
      [] v.type = "BOOL"   -> (IF v.num # 0 THEN <<"t", "r", "u", "e">>
                               ELSE <<"f", "a", "l", "s", "e">>)
      [] v.type = "NULL"   -> <<"n", "u", "l", "l">>
      [] OTHER             -> <<>>

RECURSIVE PrintLine(_, _, _, _)
\* the arguments from C index i on, separated by blanks
PrintLine(h, args, i, u) ==
    IF i >= Len(args) THEN <<>>
    ELSE (IF i > 0 THEN <<" ">> ELSE <<>>)
         \o PrintArg(args[i + 1], Rd(h, args[i + 1], u))
         \o PrintLine(h, args, i + 1, u)

\* the built-ins yield [m, out]: the machine afterwards and the text written
builtin_print(m, argc, u) ==
    LET p == pop_args(m, argc) IN
    [m   |-> vm_push(FreeAll(p.m, p.args, 1), value_null),
     out |-> PrintLine(p.m.heap, p.args, 0, u) \o <<"\n">>]

RECURSIVE PrintfText(_, _, _, _, _, _)
\* what the format loop writes from fmt[i] on (i counts from 1), the next
\* unused argument being args[next]
PrintfText(h, fmt, args, i, next, u) ==
    LET Esc(c) == CASE c = "n" -> <<"\n">>
                    [] c = "t" -> <<"\t">>
                    [] c = "r" -> <<"\r">>
                    [] OTHER   -> <<c>>
        Conv(c, a) ==
            CASE c \in {"d", "i", "f"} /\ a.type \in {"INT", "FLOAT"} -> Digits(a.num)
              [] c = "b" -> (IF value_is_truthy(a, Rd(h, a, u)) THEN <<"t", "r", "u", "e">>
                             ELSE <<"f", "a", "l", "s", "e">>)
              [] OTHER -> value_to_string(a, Rd(h, a, u))
    IN
    IF i > Len(fmt) THEN <<>>
    ELSE IF fmt[i] = "\\" /\ i < Len(fmt)
    THEN Esc(fmt[i + 1]) \o PrintfText(h, fmt, args, i + 2, next, u)
    ELSE IF fmt[i] = "%" /\ i < Len(fmt)
    THEN IF fmt[i + 1] \in {"d", "i", "f", "s", "c", "b"}
         THEN IF next < Len(args)
              THEN Conv(fmt[i + 1], args[next + 1])
                   \o PrintfText(h, fmt, args, i + 2, next + 1, u)
              ELSE PrintfText(h, fmt, args, i + 2, next, u)
         ELSE (IF fmt[i + 1] = "%" THEN <<"%">> ELSE <<"%", fmt[i + 1]>>)
              \o PrintfText(h, fmt, args, i + 2, next, u)
    ELSE <<fmt[i]>> \o PrintfText(h, fmt, args, i + 1, next, u)

builtin_printf(m, argc, u) ==
    IF argc < 1 THEN [m |-> vm_push(m, value_null), out |-> <<>>]
    ELSE LET p == pop_args(m, argc) IN
         [m   |-> vm_push(FreeAll(p.m, p.args, 1), value_null),
          out |-> IF p.args[1].type # "STRING"
                  THEN value_to_string(p.args[1], <<>>)
                  ELSE PrintfText(p.m.heap, Rd(p.m.heap, p.args[1], u), p.args, 1, 1, u)]

\* a max that releases every argument and hands the first one back
builtin_max_freeing(m, argc) ==
    [m |-> vm_push(FreeAll(pop_args(m, argc).m, pop_args(m, argc).args, 1),
                   IF argc >= 1 THEN pop_args(m, argc).args[1] ELSE value_null),
     out |-> <<>>]

builtin_max(m, argc) ==
    LET p == pop_args(m, argc) IN
    IF argc < 2
    THEN [m |-> vm_push(FreeAll(p.m, p.args, 2), IF argc >= 1 THEN p.args[1] ELSE value_null),
          out |-> <<>>]
    ELSE [m |-> vm_push(FreeAll(p.m, p.args, 1),
                        IF p.args[1].type = "INT" /\ p.args[2].type = "INT"
                        THEN value_int(IF p.args[1].num >= p.args[2].num
                                       THEN p.args[1].num ELSE p.args[2].num)
                        ELSE value_float(IF to_double(p.args[1]) >= to_double(p.args[2])
                                         THEN to_double(p.args[1])
                                         ELSE to_double(p.args[2]))),
          out |-> <<>>]

builtin_to_string(m, argc, u) ==
    LET p == pop_args(m, argc) IN
    IF argc < 1
    THEN [m |-> vm_push([p.m EXCEPT !.heap = Alloc(@, <<>>)], value_string(NewBuf(p.m.heap))),
          out |-> <<>>]
    ELSE LET s  == value_to_string(p.args[1], Rd(p.m.heap, p.args[1], u))
             m1 == [p.m EXCEPT !.heap = Alloc(@, s)] IN
         [m |-> vm_push(FreeAll(m1, p.args, 1), value_string(NewBuf(p.m.heap))),
          out |-> <<>>]

builtin_to_int(m, argc, u) ==
    LET p == pop_args(m, argc) IN
    [m |-> vm_push(FreeAll(p.m, p.args, 1),
                   value_int(IF argc >= 1
                             THEN to_int64(p.args[1], Rd(p.m.heap, p.args[1], u)) ELSE 0)),
     out |-> <<>>]

builtin_to_bool(m, argc, u) ==
    LET p == pop_args(m, argc) IN
    [m |-> vm_push(FreeAll(p.m, p.args, 1),
                   value_bool(IF argc < 1 THEN FALSE
                              ELSE CASE p.args[1].type \in {"BOOL", "INT", "FLOAT"} ->
                                            p.args[1].num # 0
                                     [] p.args[1].type = "STRING" ->
                                            /\ p.args[1].buf # 0
                                            /\ Rd(p.m.heap, p.args[1], u) # <<>>
                                     [] OTHER -> FALSE)),
     out |-> <<>>]

\* an exit that stores the code and lets the machine run on
builtin_exit_running(m, argc, u) ==
    [m |-> vm_push([FreeAll(pop_args(m, argc).m, pop_args(m, argc).args, 1)
                        EXCEPT !.exit_code = IF argc >= 1
                                             THEN to_int64(pop_args(m, argc).args[1], <<>>)
                                             ELSE 0],
                   value_null),
     out |-> <<>>]

builtin_exit(m, argc, u) ==
    LET p    == pop_args(m, argc)
        code == IF argc >= 1 THEN to_int64(p.args[1], Rd(p.m.heap, p.args[1], u)) ELSE 0
        m1   == FreeAll(p.m, p.args, 1) IN
    [m |-> vm_push([m1 EXCEPT !.halted = TRUE, !.exit_code = code], value_null),
     out |-> <<>>]

builtin_assert(m, argc, u) ==
    LET p == pop_args(m, argc) IN
    IF argc < 1 THEN [m |-> vm_push(p.m, value_null), out |-> <<>>]
    ELSE IF ~value_is_truthy(p.args[1], Rd(p.m.heap, p.args[1], u))
    THEN [m |-> vm_push([FreeAll(p.m, p.args, 1) EXCEPT !.halted = TRUE, !.exit_code = 1],
                        value_null),
          out |-> <<>>]
    ELSE [m |-> vm_push(FreeAll(p.m, p.args, 1), value_null), out |-> <<>>]

RECURSIVE PopFreeN(_, _)
\* for (i = 0; i < n; i++) vm_pop_free(vm)
PopFreeN(m, n) == IF n <= 0 THEN m ELSE PopFreeN(vm_pop_free(m), n - 1)

\* stdlib_dispatch over the table rows modelled
stdlib_dispatch(m, bid, argc, u) ==
    CASE bid = BUILTIN_MAX       -> builtin_max(m, argc)
      [] bid = BUILTIN_TO_INT    -> builtin_to_int(m, argc, u)
      [] bid = BUILTIN_TO_STRING -> builtin_to_string(m, argc, u)
      [] bid = BUILTIN_TO_BOOL   -> builtin_to_bool(m, argc, u)
      [] bid = BUILTIN_EXIT      -> builtin_exit(m, argc, u)
      [] bid = BUILTIN_ASSERT    -> builtin_assert(m, argc, u)
      [] OTHER -> [m |-> vm_push(PopFreeN(m, argc), value_null), out |-> <<>>]

op_call_builtin(m, ins, u) ==
    CASE ins.operand1 = BUILTIN_PRINT -> builtin_print(m, ins.operand2, u)
      [] ins.operand1 = BUILTIN_PRINTF -> builtin_printf(m, ins.operand2, u)
      [] OTHER -> stdlib_dispatch(m, ins.operand1, ins.operand2, u)

OpCallBuiltin ==
    /\ At("OP_CALL_BUILTIN")
    /\ \E u \in UChoices(heap, TopN(Ins.operand2)) :
        LET r == op_call_builtin(M, Ins, u) IN
        /\ Commit(r.m)
        /\ output' = output \o r.out
    /\ pc' = pc + 1
    /\ UNCHANGED <<parser, src, stage, bytecode, errors, frames, globals, status>>

(***************************************************************************)
(* Array opcodes                                                           *)
(***************************************************************************)
OpArray ==
    /\ Running
    /\ Ins.opcode \in {"OP_ARRAY_NEW", "OP_ARRAY_GET", "OP_ARRAY_SET", "OP_ARRAY_LEN"}
    /\ StackStep(vm_push(M, value_null))

(***************************************************************************)
(* End of vm_execute, and the rest of main()                               *)
(***************************************************************************)
VmExecuteReturn ==
    /\ stage = "running"
    /\ ~Running
    /\ stage' = "returned"
    /\ UNCHANGED <<parser, src, bytecode, errors, heap, stack, frames, globals, pc, halted,
                   exit_code, double_free, output, status>>

RECURSIVE FreeFrames(_, _, _)
FreeFrames(m, fr, i) ==
    IF i > Len(fr) THEN m
    ELSE FreeFrames(FreeAll(m, SubSeq(fr[i].locals, 1, fr[i].local_count), 1), fr, i + 1)

\* a shutdown that leaves the globals alone
vm_free_no_globals(m, fr, gl) == FreeFrames(FreeAll(m, m.stack, 1), fr, 1)

vm_free(m, fr, gl) ==
    FreeAll(FreeFrames(FreeAll(m, m.stack, 1), fr, 1), SubSeq(gl.slots, 1, gl.count), 1)

bytecode_free(m, bc) == FreeAll(m, bc.constants, 1)

\* vm_free(vm); bytecode_free(bytecode); ...; return exit_code;
VmFree ==
    /\ stage = "returned"
    /\ LET m == bytecode_free(vm_free(M, frames, globals), bytecode) IN
        /\ heap' = m.heap
        /\ double_free' = m.double_free
    /\ stage' = "exited"
    /\ status' = exit_code
    /\ UNCHANGED <<parser, src, bytecode, errors, stack, frames, globals, pc, halted,
                   exit_code, output>>

Next ==
    \/ TypeCheck
    \/ CodegenGenerate
    \/ PipelineAbort
    \/ VmCreate
    \/ OpPushConst
    \/ OpPop
    \/ OpLoadVar
    \/ OpStoreVar
    \/ OpLoadGlobal
    \/ OpStoreGlobal
    \/ OpAdd
    \/ OpArith
    \/ OpDivide
    \/ OpModulo
    \/ OpNegate
    \/ OpNot
    \/ OpEqual
    \/ OpCompare
    \/ OpLogical
    \/ OpJump
    \/ OpJumpIfFalse
    \/ OpCall
    \/ OpReturn
    \/ OpHalt
    \/ OpCallBuiltin
    \/ OpArray
    \/ VmExecuteReturn
    \/ VmFree

Spec == Init /\ [][Next]_vars

(***************************************************************************)
(* The parser on its own: parser_parse applied to token arrays.            *)
(***************************************************************************)
\* longest run of arbitrary tokens put into a sample text
MaxJunk == 1

EndOfFile == Tok("TOKEN_EOF", "", 0, 0)

\* the tokens runs are made of
Alphabet ==
    { Tok("TOKEN_IDENTIFIER", "x", 1, 0), Tok("TOKEN_IDENTIFIER", "Int", 3, 0),
      Tok("TOKEN_INT", "1", 1, 1), Tok("TOKEN_NEWLINE", "\n", 1, 0),
      Tok("TOKEN_LPAREN", "(", 1, 0), Tok("TOKEN_RPAREN", ")", 1, 0),
      Tok("TOKEN_LBRACE", "{", 1, 0), Tok("TOKEN_RBRACE", "}", 1, 0),
      Tok("TOKEN_LBRACKET", "[", 1, 0), Tok("TOKEN_RBRACKET", "]", 1, 0),
      Tok("TOKEN_COMMA", ",", 1, 0), Tok("TOKEN_COLON", ":", 1, 0),
      Tok("TOKEN_SEMICOLON", ";", 1, 0), Tok("TOKEN_EQUAL", "=", 1, 0),
      Tok("TOKEN_MINUS", "-", 1, 0), Tok("TOKEN_IF", "if", 2, 0),
      Tok("TOKEN_FOR", "for", 3, 0), Tok("TOKEN_RETURN", "return", 6, 0),
      Tok("TOKEN_LET", "Let", 3, 0), Tok("TOKEN_FUNC", "func", 4, 0) }

\* sample texts, without the closing EOF
Samples ==
    LET I(x) == Tok("TOKEN_IDENTIFIER", x, 1, 0)
        L(n) == Tok("TOKEN_IDENTIFIER", "name200", 200, 0)
        K(n) == Tok("TOKEN_INT", "n", 1, n)
        S(c) == Tok("TOKEN_STRING", c, 1, <<c>>)
        T(t, lx) == Tok(t, lx, 1, 0)
        LP == T("TOKEN_LPAREN", "(")      RP == T("TOKEN_RPAREN", ")")
        LB == T("TOKEN_LBRACE", "{")      RB == T("TOKEN_RBRACE", "}")
        LK == T("TOKEN_LBRACKET", "[")    RK == T("TOKEN_RBRACKET", "]")
        CM == T("TOKEN_COMMA", ",")       CL == T("TOKEN_COLON", ":")
        SC == T("TOKEN_SEMICOLON", ";")   EQ == T("TOKEN_EQUAL", "=")
        LT == T("TOKEN_LESS", "<")        GT == T("TOKEN_GREATER", ">")
    IN  { \* print("a" : 1, x);
          << I("print"), LP, S("a"), CL, K(1), CM, I("x"), RP, SC >>,
          \* printf("a" : 1);
          << I("printf"), LP, S("a"), CL, K(1), RP, SC >>,
          \* f(1 : 2);
          << I("f"), LP, K(1), CL, K(2), RP, SC >>,
          \* 1 = 2;
          << K(1), EQ, K(2), SC >>,
          \* x[0] = f(1, 2);
          << I("x"), LK, K(0), RK, EQ, I("f"), LP, K(1), CM, K(2), RP, SC >>,
          \* func f(a : Int) { return a; }
          << T("TOKEN_FUNC", "func"), I("f"), LP, I("a"), CL, I("Int"), RP,
             LB, T("TOKEN_RETURN", "return"), I("a"), SC, RB >>,
          \* if (a) { x = 1; } else { break; }
          << T("TOKEN_IF", "if"), LP, I("a"), RP, LB, I("x"), EQ, K(1), SC, RB,
             T("TOKEN_ELSE", "else"), LB, T("TOKEN_BREAK", "break"), SC, RB >>,
          \* while (!a) { continue; }
          << T("TOKEN_WHILE", "while"), LP, T("TOKEN_BANG", "!"), I("a"), RP,
             LB, T("TOKEN_CONTINUE", "continue"), SC, RB >>,
          \* for (Let i : Int = 0; i < 3; i = i + 1) { }
          << T("TOKEN_FOR", "for"), LP, T("TOKEN_LET", "Let"), I("i"), CL, I("Int"),
             EQ, K(0), SC, I("i"), LT, K(3), SC, I("i"), EQ, I("i"),
             T("TOKEN_PLUS", "+"), K(1), RP, LB, RB >>,
          \* Int x = -1;
          << I("Int"), I("x"), EQ, T("TOKEN_MINUS", "-"), K(1), SC >>,
          \* Import <io.ocl>
          << T("TOKEN_IMPORT", "Import"), LT, I("io"), T("TOKEN_DOT", "."), I("ocl"), GT >>,
          \* Import <name200.name200>   (two identifiers of 200 characters)
          << T("TOKEN_IMPORT", "Import"), LT, L(1), T("TOKEN_DOT", "."), L(2), GT >> }

\* every sample with one token left out, and with a run of at most MaxJunk
\* tokens put in at any place; each array ends in EOF
TokenArrays ==
    UNION { { SubSeq(s, 1, k) \o j \o SubSeq(s, k + 1, Len(s)) \o <<EndOfFile>> :
                k \in 0..Len(s),
                j \in UNION { [1..n -> Alphabet] : n \in 0..MaxJunk } }
            \cup
            { SubSeq(s, 1, k - 1) \o SubSeq(s, k + 1, Len(s)) \o <<EndOfFile>> :
                k \in 1..Len(s) }
          : s \in Samples }

ParserInit ==
    /\ parser \in { parser_create(t, <<>>) : t \in TokenArrays }
    /\ src = 0
    /\ stage = "lexed"
    /\ bytecode = bytecode_create
    /\ errors = <<>>
    /\ heap = <<>>
    /\ stack = <<>>
    /\ frames = <<>>
    /\ globals = [slots |-> <<>>, count |-> 0]
    /\ pc = 0
    /\ halted = FALSE
    /\ exit_code = 0
    /\ double_free = FALSE
    /\ output = <<>>
    /\ status = -1

\* ProgramNode *prog = parser_parse(p).  A write behind the end of name_buf
\* is undefined: the process is aborted, or it goes on and returns.
ParserParse ==
    /\ stage = "lexed"
    /\ LET Returns(p) ==
               \E u \in (IF p.overrun THEN BOOLEAN ELSE {TRUE}) :
                   /\ parser' = IF u THEN p ELSE [parser EXCEPT !.overrun = TRUE]
                   /\ errors' = IF u THEN p.errors ELSE errors
                   /\ stage' = IF u THEN "parsed" ELSE "aborted"
       IN  Returns(parser_parse(parser))
    /\ UNCHANGED <<src, bytecode, heap, stack, frames, globals, pc, halted, exit_code,
                   double_free, output, status>>

ParserNext == ParserParse

ParserSpec == ParserInit /\ [][ParserNext]_vars



(***************************************************************************)
(* Properties                                                              *)
(***************************************************************************)
\* C1: whenever the instruction about to execute consumes a borrowed string
\* from the stack, the buffer the view refers to has not been released and
\* is still held by an owner: a constant-pool entry, a local slot of a live
\* frame or a global slot.
BorrowedOperandsLive ==
    Running =>
        LET n == CASE Ins.opcode \in {"OP_POP", "OP_STORE_VAR", "OP_STORE_GLOBAL", "OP_NEGATE",
                                      "OP_NOT", "OP_JUMP_IF_FALSE", "OP_RETURN"} -> 1
                   [] Ins.opcode \in {"OP_ADD", "OP_SUBTRACT", "OP_MULTIPLY", "OP_DIVIDE",
                                      "OP_MODULO", "OP_EQUAL", "OP_NOT_EQUAL", "OP_LESS",
                                      "OP_LESS_EQUAL", "OP_GREATER", "OP_GREATER_EQUAL",
                                      "OP_AND", "OP_OR"} -> 2
                   [] Ins.opcode \in {"OP_CALL", "OP_CALL_BUILTIN"} -> Ins.operand2
                   [] OTHER -> 0
            Owns(o, v) == o.type = "STRING" /\ o.owned /\ o.buf = v.buf
        IN  \A i \in 1..Len(TopN(n)) :
                LET v == TopN(n)[i] IN
                (v.type = "STRING" /\ ~v.owned /\ v.buf # 0) =>
                    /\ Live(heap, v.buf)
                    /\ \/ \E c \in 1..Len(bytecode.constants) : Owns(bytecode.constants[c], v)
                       \/ \E f \in 1..Len(frames) : \E k \in 1..frames[f].local_count :
                              Owns(frames[f].locals[k], v)
                       \/ \E k \in 1..globals.count : Owns(globals.slots[k], v)

\* C2: a return that pops a call frame leaves the value stack at that
\* frame's recorded stack_base + 1, whatever the argument count of the call.
ReturnLeavesStackBasePlusOne ==
    [][(At("OP_RETURN") /\ Len(frames) > 0 /\ Len(frames') = Len(frames) - 1)
          => Len(stack') = current_frame(frames).stack_base + 1]_vars

ReturnPushesOwnedCopy ==
    [][(At("OP_RETURN") /\ Len(frames) > 0 /\ Len(stack) > 0
            /\ stack[Len(stack)].type = "STRING")
          => LET raw    == stack[Len(stack)]
                 r      == stack'[Len(stack')]
                 locals == current_frame(frames).locals
             IN  /\ Len(stack') > 0
                 /\ r.type = "STRING" /\ r.owned
                 /\ Live(heap', r.buf)
                 /\ \A k \in 1..Len(locals) :
                        locals[k].type = "STRING" => locals[k].buf # r.buf
                 /\ Live(heap, raw.buf) => heap'[r.buf].data = heap[raw.buf].data]_vars

\* a call has just returned a string read from one of its locals: the
\* caller holds an owned string whose bytes are those of a released buffer
ReturnedLocalString ==
    /\ Running
    /\ pc > 0
    /\ bytecode.instructions[pc].opcode = "OP_CALL"
    /\ Len(stack) > 0
    /\ LET r == stack[Len(stack)] IN
        /\ r.type = "STRING" /\ r.owned /\ Live(heap, r.buf)
        /\ \E b \in 1..Len(heap) : ~heap[b].live /\ b < r.buf /\ heap[b].data = heap[r.buf].data
                                    /\ heap[b].data # <<>>

\* C5: while a function's frame is the active one, the program counter stays
\* inside that function's body, from start_ip to the body's last instruction.
PcStaysInsideCallee ==
    (stage = "running" /\ ~halted /\ Len(frames) > 0) =>
        LET call     == bytecode.instructions[current_frame(frames).return_ip]
            fe       == bytecode.functions[call.operand1 + 1]
            body_end == bytecode.instructions[fe.start_ip].operand1
        IN  fe.start_ip <= pc /\ pc < body_end


\* C6: for every break statement inside a loop the chunk holds an
\* unconditional jump emitted for that statement whose target is the first
\* instruction after the innermost enclosing loop.
BreakJumpsPastLoop ==
    stage \in {"generated", "running", "returned"} =>
        LET RECURSIVE Breaks(_, _, _)
            \* the break statements of list from element i on, each with its
            \* innermost enclosing loop (<<>>: none)
            Breaks(list, i, loop) ==
                IF i > Len(list) THEN {}
                ELSE LET n == list[i] IN
                     (IF n.type = "AST_BREAK" THEN {[at |-> n.location, loop |-> loop]} ELSE {})
                     \cup (CASE n.type = "AST_FUNC_DECL" -> Breaks(n.body, 1, <<>>)
                             [] n.type \in {"AST_WHILE_LOOP", "AST_FOR_LOOP"} ->
                                    Breaks(n.body, 1, <<n.location>>)
                             [] n.type \in {"AST_IF_STMT", "AST_BLOCK"} ->
                                    Breaks(n.body, 1, loop) \cup Breaks(n.else_block, 1, loop)
                             [] OTHER -> {})
                     \cup Breaks(list, i + 1, loop)
            code == bytecode.instructions
        IN  \A b \in Breaks(Programs[src], 1, <<>>) :
                b.loop # <<>> =>
                    \E i, back \in 1..Len(code) :
                        /\ code[i].location = b.at
                        /\ code[i].opcode = "OP_JUMP"
                        \* the loop's back jump is its last instruction
                        /\ code[back].location = b.loop[1]
                        /\ code[back].opcode = "OP_JUMP"
                        /\ code[i].operand1 = back

\* C7: for every continue statement inside a loop the chunk holds a jump
\* emitted for that statement whose target is the loop's continue target:
\* the condition (loop start) of a while loop, the step of a for loop.
ContinueJumpsToTarget ==
    stage \in {"generated", "running", "returned"} =>
        LET RECURSIVE Continues(_, _, _)
            Continues(list, i, loop) ==
                IF i > Len(list) THEN {}
                ELSE LET n == list[i] IN
                     (IF n.type = "AST_CONTINUE" THEN {[at |-> n.location, loop |-> loop]}
                      ELSE {})
                     \cup (CASE n.type = "AST_FUNC_DECL" -> Continues(n.body, 1, <<>>)
                             [] n.type \in {"AST_WHILE_LOOP", "AST_FOR_LOOP"} ->
                                    Continues(n.body, 1, <<n>>)
                             [] n.type \in {"AST_IF_STMT", "AST_BLOCK"} ->
                                    Continues(n.body, 1, loop)
                                    \cup Continues(n.else_block, 1, loop)
                             [] OTHER -> {})
                     \cup Continues(list, i + 1, loop)
            RECURSIVE Locs(_)
            \* the source locations of an expression and its operands
            Locs(e) == {e.location} \cup UNION {Locs(e.kids[k]) : k \in 1..Len(e.kids)}
            code == bytecode.instructions
            \* C index t is where the step of for loop lp starts
            StepAt(lp, t) ==
                /\ t + 1 \in 1..Len(code)
                /\ code[t + 1].location \in Locs(lp.increment[1])
                /\ \A k \in 1..t : code[k].location \notin Locs(lp.increment[1])
        IN  \A c \in Continues(Programs[src], 1, <<>>) :
                c.loop # <<>> =>
                    \E i, back \in 1..Len(code) :
                        /\ code[i].location = c.at
                        /\ code[i].opcode = "OP_JUMP"
                        /\ code[back].location = c.loop[1].location
                        /\ code[back].opcode = "OP_JUMP"
                        /\ IF c.loop[1].type = "AST_FOR_LOOP" /\ Len(c.loop[1].increment) > 0
                           THEN StepAt(c.loop[1], code[i].operand1)
                           ELSE code[i].operand1 = code[back].operand1

\* C8: once code is generated for a program with a break statement outside
\* every loop, the collector holds a diagnostic for that statement.
BreakOutsideLoopIsDiagnosed ==
    stage \in {"generated", "running", "returned"} =>
        LET RECURSIVE Stray(_, _, _)
            \* the locations of the break statements outside every loop
            Stray(list, i, in_loop) ==
                IF i > Len(list) THEN {}
                ELSE LET n == list[i] IN
                     (IF n.type = "AST_BREAK" /\ ~in_loop THEN {n.location} ELSE {})
                     \cup (CASE n.type = "AST_FUNC_DECL" -> Stray(n.body, 1, FALSE)
                             [] n.type \in {"AST_WHILE_LOOP", "AST_FOR_LOOP"} ->
                                    Stray(n.body, 1, TRUE)
                             [] n.type \in {"AST_IF_STMT", "AST_BLOCK"} ->
                                    Stray(n.body, 1, in_loop) \cup Stray(n.else_block, 1, in_loop)
                             [] OTHER -> {})
                     \cup Stray(list, i + 1, in_loop)
        IN  \A at \in Stray(Programs[src], 1, FALSE) :
                \E e \in 1..Len(errors) : errors[e].location = at

\* C9: a divide whose divisor is zero, integer or float, sets the halted
\* flag and exit code 1, which ends dispatch.
DivideByZeroHalts ==
    [][(At("OP_DIVIDE") /\ Len(stack) >= 2 /\ DivisorIsZero(stack[Len(stack)]))
          => (halted' /\ exit_code' = 1)]_vars

\* C10: a division or modulo by zero takes its two operands and an
\* unimplemented array read takes its two (array and index); each pushes one
\* Null, leaving the stack one shorter, with Null on top.
ErrorRecoveryKeepsBalance ==
    [][(/\ Running
        /\ Len(stack) >= 2
        /\ \/ Ins.opcode = "OP_DIVIDE" /\ DivisorIsZero(stack[Len(stack)])
           \/ Ins.opcode = "OP_MODULO" /\ stack[Len(stack)].type = "INT"
                                       /\ stack[Len(stack)].num = 0
           \/ Ins.opcode = "OP_ARRAY_GET")
          => (/\ Len(stack') = Len(stack) - 1
              /\ stack'[Len(stack')] = value_null)]_vars

\* C11: an instruction that finds fewer values on the stack than it pops
\* (underflow), that pushes onto a full stack (overflow), or that calls with
\* the frame stack full, leaves the halted flag set and exit code 1.
StackFaultExitsOne ==
    [][LET Need(ins) ==
               CASE ins.opcode \in {"OP_POP", "OP_STORE_VAR", "OP_STORE_GLOBAL",
                                    "OP_NEGATE", "OP_NOT", "OP_JUMP_IF_FALSE"} -> 1
                 [] ins.opcode \in {"OP_ADD", "OP_SUBTRACT", "OP_MULTIPLY", "OP_DIVIDE",
                                    "OP_MODULO", "OP_EQUAL", "OP_NOT_EQUAL", "OP_LESS",
                                    "OP_LESS_EQUAL", "OP_GREATER", "OP_GREATER_EQUAL",
                                    "OP_AND", "OP_OR"} -> 2
                 [] ins.opcode = "OP_CALL_BUILTIN" -> ins.operand2
                 [] OTHER -> 0
           Pushes(ins) == ins.opcode \in {"OP_PUSH_CONST", "OP_LOAD_VAR", "OP_LOAD_GLOBAL",
                                          "OP_ARRAY_GET"}
           Underflow == Len(stack) < Need(Ins)
           Overflow == Pushes(Ins) /\ Len(stack) >= VM_STACK_MAX
           FrameOverflow == /\ Ins.opcode = "OP_CALL"
                            /\ Ins.operand1 < Len(bytecode.functions)
                            /\ Len(frames) >= VM_FRAMES_MAX
       IN  (Running /\ (Underflow \/ Overflow \/ FrameOverflow))
              => (halted' /\ exit_code' = 1)]_vars

\* C12: an OP_CALL whose function ordinal is not below the number of
\* registered functions (the sentinel of an unknown callee included) sets
\* halted and exit code 1, and leaves the frame stack and the value stack,
\* arguments included, as they were.
InvalidCallHaltsUntouched ==
    [][(At("OP_CALL") /\ Ins.operand1 >= Len(bytecode.functions))
          => (/\ halted' /\ exit_code' = 1
              /\ frames' = frames
              /\ stack' = stack)]_vars

\* a call through the unknown-callee sentinel, with its argument on the
\* stack, has just been rejected
SentinelCallRejected ==
    /\ stage = "running"
    /\ halted /\ exit_code = 1
    /\ pc > 0
    /\ bytecode.instructions[pc].opcode = "OP_CALL"
    /\ bytecode.instructions[pc].operand1 = SENTINEL
    /\ bytecode.instructions[pc].operand2 > 0
    /\ Len(stack) >= bytecode.instructions[pc].operand2
    /\ frames = <<>>

\* C13: once code is generated, the target of every jump instruction,
\* conditional or not, is the index of an instruction of the chunk.
JumpTargetsInsideChunk ==
    stage \in {"generated", "running", "returned"} =>
        \A i \in 1..Len(bytecode.instructions) :
            bytecode.instructions[i].opcode
                    \in {"OP_JUMP", "OP_JUMP_IF_FALSE", "OP_JUMP_IF_TRUE"}
                => bytecode.instructions[i].operand1 < instruction_count(bytecode)

\* the chunk of a program whose last statement is an if holds a conditional
\* jump to the last instruction, the halt emitted after the statements, and
\* a function body ending in a loop holds jumps of both kinds
JumpToFinalHalt ==
    /\ stage = "generated"
    /\ Len(Programs[src]) > 0
    /\ Programs[src][Len(Programs[src])].type = "AST_IF_STMT"
    /\ \E i \in 1..Len(bytecode.instructions) :
            /\ bytecode.instructions[i].opcode = "OP_JUMP_IF_FALSE"
            /\ bytecode.instructions[i].operand1 = instruction_count(bytecode) - 1
            /\ bytecode.instructions[instruction_count(bytecode)].opcode = "OP_HALT"
    /\ \E i \in 1..Len(bytecode.instructions) :
            /\ bytecode.instructions[i].opcode = "OP_JUMP"
            /\ bytecode.instructions[i].operand1 < i - 1

\* C14: once code is generated, the function table holds as many entries as
\* the source tree holds function declarations.
FunctionCountIsDeclarationCount ==
    stage \in {"generated", "running", "returned"} =>
        LET RECURSIVE Decls(_, _)
            \* the number of function declarations in a statement list,
            \* nested ones included
            Decls(list, i) ==
                IF i > Len(list) THEN 0
                ELSE LET n == list[i] IN
                     (CASE n.type = "AST_FUNC_DECL" -> 1 + Decls(n.body, 1)
                        [] n.type \in {"AST_WHILE_LOOP", "AST_FOR_LOOP"} -> Decls(n.body, 1)
                        [] n.type \in {"AST_IF_STMT", "AST_BLOCK"} ->
                               Decls(n.body, 1) + Decls(n.else_block, 1)
                        [] OTHER -> 0)
                     + Decls(list, i + 1)
        IN  Len(bytecode.functions) = Decls(Programs[src], 1)

\* C15: once the halted flag is set it stays set and nothing changes the
\* stack, the frames, the globals, the program counter or the exit code: no
\* further instruction is dispatched.
HaltedIsTerminal ==
    [][halted => (/\ halted'
                  /\ stack' = stack
                  /\ frames' = frames
                  /\ globals' = globals
                  /\ pc' = pc
                  /\ exit_code' = exit_code)]_vars

\* vm_execute has returned from a halt (by the exit built-in or a failed
\* assert) that left instructions of the chunk undispatched
HaltedBeforeTheEnd ==
    /\ stage = "returned"
    /\ halted
    /\ pc > 0
    /\ bytecode.instructions[pc].opcode = "OP_CALL_BUILTIN"
    /\ bytecode.instructions[pc].operand1 \in {BUILTIN_EXIT, BUILTIN_ASSERT}
    /\ pc + 1 < instruction_count(bytecode)
    /\ bytecode.instructions[pc + 1].opcode = "OP_POP"
    /\ stack # <<>>

\* C16: whenever the execution loop has stopped, by the halt opcode, by a
\* runtime error or with the program counter past the last instruction, the
\* halted flag is set.
LoopStopsHalted ==
    (stage \in {"running", "returned"} /\ ~Running) => halted

\* vm_execute has returned with the program counter past the last
\* instruction, the halt that ends every generated chunk
StoppedPastTheEnd ==
    /\ stage = "returned"
    /\ pc = instruction_count(bytecode)
    /\ bytecode.instructions[pc].opcode = "OP_HALT"
    /\ halted

NormalCompletionExitsZero ==
    [][(At("OP_HALT") /\ bytecode_find_function(bytecode, "main") < 0)
           => exit_code' = 0]_vars

\* C22: after type checking, the variable declarations that carry a
\* redeclaration diagnostic are exactly those whose name is already declared
\* (as a variable, a parameter or a function) in the scope they are in; a
\* declaration that shadows a name of an enclosing scope carries none.
RedeclarationDiagnosedExactly ==
    (stage = "checked" \/ (stage = "exited" /\ bytecode = bytecode_create)) =>
        LET RECURSIVE Redeclared(_, _, _)
            \* the lines of the declarations in list[i..] that repeat a name
            \* of seen, the names declared so far in the scope of the list;
            \* a function body, a block and a loop each open a scope
            Redeclared(list, i, seen) ==
                IF i > Len(list) THEN {}
                ELSE LET n == list[i] IN
                     CASE n.type = "AST_VAR_DECL" ->
                            (IF n.name \in seen THEN {n.location.line} ELSE {})
                            \cup Redeclared(list, i + 1, seen \cup {n.name})
                       [] n.type = "AST_FUNC_DECL" ->
                            Redeclared(n.body, 1, {n.params[k] : k \in 1..Len(n.params)})
                            \cup Redeclared(list, i + 1, seen \cup {n.name})
                       [] n.type \in {"AST_IF_STMT", "AST_BLOCK"} ->
                            Redeclared(n.body, 1, {}) \cup Redeclared(n.else_block, 1, {})
                            \cup Redeclared(list, i + 1, seen)
                       [] n.type \in {"AST_FOR_LOOP", "AST_WHILE_LOOP"} ->
                            Redeclared(n.init \o n.body, 1, {})
                            \cup Redeclared(list, i + 1, seen)
                       [] OTHER -> Redeclared(list, i + 1, seen)
        IN  {errors[e].location.line :
                e \in {k \in 1..Len(errors) : errors[k].message = "Variable already declared"}}
            = Redeclared(Programs[src], 1, {})

\* C23: after type checking, every call in the program, wherever it stands,
\* of a declared function that is not a built-in with a number of arguments
\* other than the function's number of parameters carries an arity
\* diagnostic at its location.
ArityMismatchDiagnosed ==
    (stage = "checked" \/ (stage = "exited" /\ bytecode = bytecode_create)) =>
        LET RECURSIVE Nodes(_, _)
            \* the nodes of list[i..] and all nodes below them
            Nodes(list, i) ==
                IF i > Len(list) THEN {}
                ELSE {list[i]}
                     \cup Nodes(list[i].kids \o list[i].init \o list[i].condition
                              \o list[i].increment \o list[i].body \o list[i].else_block, 1)
                     \cup Nodes(list, i + 1)
            all == Nodes(Programs[src], 1)
            Declared(c) == {d \in all : d.type = "AST_FUNC_DECL" /\ d.name = c.name}
        IN  \A c \in all :
                (/\ c.type = "AST_CALL"
                 /\ lookup_builtin(c.name) <= 0
                 /\ Declared(c) # {}
                 /\ \A d \in Declared(c) : Len(d.params) # Len(c.kids))
                => \E e \in 1..Len(errors) :
                        /\ errors[e].message = "Function expects other arguments"
                        /\ errors[e].location = c.location

\* C24: once code is generated, every call in the program whose callee is
\* neither a built-in nor in the function table has left a call instruction
\* with the sentinel ordinal and its argument count in the chunk, and an
\* error diagnostic at the call's location in the collector.
UnknownCalleeDiagnosed ==
    stage = "generated" =>
        LET RECURSIVE Nodes(_, _)
            \* the nodes of list[i..] and all nodes below them
            Nodes(list, i) ==
                IF i > Len(list) THEN {}
                ELSE {list[i]}
                     \cup Nodes(list[i].kids \o list[i].init \o list[i].condition
                              \o list[i].increment \o list[i].body \o list[i].else_block, 1)
                     \cup Nodes(list, i + 1)
        IN  \A c \in Nodes(Programs[src], 1) :
                (/\ c.type = "AST_CALL"
                 /\ lookup_builtin(c.name) <= 0
                 /\ bytecode_find_function(bytecode, c.name) < 0)
                => /\ \E i \in 1..Len(bytecode.instructions) :
                        /\ bytecode.instructions[i].opcode = "OP_CALL"
                        /\ bytecode.instructions[i].operand1 = SENTINEL
                        /\ bytecode.instructions[i].operand2 = Len(c.kids)
                        /\ bytecode.instructions[i].location = c.location
                   /\ \E e \in 1..Len(errors) : errors[e].location = c.location

\* C25: a load-local or store-local executes inside a frame and its slot
\* index lies within that frame's locals array; a call hands the callee a
\* frame whose slots beyond the bound arguments are all Null; a slot of a
\* frame changes only by a store-local of that slot executed in that frame;
\* and a load-local pushes the view of what its slot holds.  So a slot not
\* stored to in the current invocation loads as Null.
LocalSlotsInRangeAndFresh ==
    [][/\ (Running /\ Ins.opcode \in {"OP_LOAD_VAR", "OP_STORE_VAR"})
            => /\ Len(frames) > 0
               /\ Ins.operand1 < current_frame(frames).local_count
               /\ current_frame(frames).local_count <= Len(current_frame(frames).locals)
       /\ (At("OP_CALL") /\ Len(frames') = Len(frames) + 1)
            => \A i \in 1..Len(current_frame(frames').locals) :
                    i > Ins.operand2 => current_frame(frames').locals[i] = value_null
       /\ (At("OP_LOAD_VAR") /\ Len(stack) < VM_STACK_MAX)
            => stack' = Append(stack, LoadView(current_frame(frames).locals[Ins.operand1 + 1]))
       /\ (stage = "running" /\ stage' = "running")
            => \A k \in 1..Len(frames) : \A i \in 1..Len(frames[k].locals) :
                    (/\ k <= Len(frames')
                     /\ i <= Len(frames'[k].locals)
                     /\ frames'[k].locals[i] # frames[k].locals[i])
                    => (At("OP_STORE_VAR") /\ k = Len(frames) /\ i = Ins.operand1 + 1)
      ]_vars

\* C25 witness: program 38 in the second invocation of f, called without
\* its argument after the first invocation stored 7 in the parameter's
\* slot: the load of the slot has just pushed Null.
UnboundParameterLoadsNull ==
    /\ src = 38
    /\ stage = "running"
    /\ Len(frames) = 1
    /\ output # <<>>
    /\ pc > 0
    /\ bytecode.instructions[pc].opcode = "OP_LOAD_VAR"
    /\ current_frame(frames).locals[bytecode.instructions[pc].operand1 + 1] = value_null
    /\ Len(stack) > 0
    /\ stack[Len(stack)] = value_null

\* C26: whenever toBool is applied to the text toString gives for a
\* boolean b, its result is b.
ToBoolInvertsToString ==
    [][\A b \in BOOLEAN :
          (/\ At("OP_CALL_BUILTIN")
           /\ Ins.operand1 = BUILTIN_TO_BOOL
           /\ Ins.operand2 = 1
           /\ Len(stack) > 0
           /\ stack[Len(stack)].type = "STRING"
           /\ Rd(heap, stack[Len(stack)], TRUE) = value_to_string(value_bool(b), <<>>))
          => stack'[Len(stack')] = value_bool(b)
      ]_vars

GeneratedCodeStackBalanced ==
    LET Need(ins) ==
            CASE ins.opcode \in {"OP_POP", "OP_STORE_VAR", "OP_STORE_GLOBAL", "OP_NEGATE",
                                 "OP_NOT", "OP_JUMP_IF_FALSE", "OP_RETURN"} -> 1
              [] ins.opcode \in {"OP_ADD", "OP_SUBTRACT", "OP_MULTIPLY", "OP_DIVIDE",
                                 "OP_MODULO", "OP_EQUAL", "OP_NOT_EQUAL", "OP_LESS",
                                 "OP_LESS_EQUAL", "OP_GREATER", "OP_GREATER_EQUAL",
                                 "OP_AND", "OP_OR", "OP_ARRAY_GET"} -> 2
              [] ins.opcode = "OP_ARRAY_SET" -> 3
              [] ins.opcode \in {"OP_CALL", "OP_CALL_BUILTIN"} -> ins.operand2
              [] OTHER -> 0
    IN  Running =>
            /\ Len(stack) >= Need(Ins)
            /\ (/\ Ins.opcode = "OP_HALT"
                /\ pc = instruction_count(bytecode) - 1
                /\ frames = <<>>
                /\ bytecode_find_function(bytecode, "main") < 0)
               => stack = <<>>

\* C34: in the generated chunk every function body lies behind a jump
\* that skips it, the code of the top-level statements follows in source
\* order, the call of main emitted for the entry comes after all of it and
\* directly before the final halt, and that call exists, once, exactly when
\* a function named main is declared; a machine with no call in progress
\* is never inside a function body.
TopLevelThenMainOnce ==
    LET ins      == bytecode.instructions
        n        == Len(ins)
        nodes    == Programs[src]
        declared == \E k \in 1..Len(nodes) :
                        nodes[k].type = "AST_FUNC_DECL" /\ nodes[k].name = "main"
        entry    == {i \in 1..n : ins[i].location.filename = "entry"}
        \* 1-based indices of the jumps emitted in front of function bodies;
        \* the body behind jump i has the 0-based addresses i .. target - 1
        Jumps    == {i \in 1..n : /\ ins[i].opcode = "OP_JUMP"
                                  /\ \E k \in 1..Len(nodes) :
                                         /\ nodes[k].type = "AST_FUNC_DECL"
                                         /\ nodes[k].location = ins[i].location}
        InBody(a) == \E i \in Jumps : a \in i..(ins[i].operand1 - 1)
        Tops     == {k \in 1..Len(nodes) : nodes[k].type # "AST_FUNC_DECL"}
        \* the source positions of the nodes of a list of trees
        RECURSIVE Lines(_, _)
        Lines(list, i) ==
            IF i > Len(list) THEN {}
            ELSE {list[i].location.line}
                    \cup Lines(list[i].kids, 1) \cup Lines(list[i].body, 1)
                    \cup Lines(list[i].else_block, 1) \cup Lines(list[i].init, 1)
                    \cup Lines(list[i].condition, 1) \cup Lines(list[i].increment, 1)
                    \cup Lines(list, i + 1)
        \* 1-based indices of the instructions of top-level statements
        Top      == {i \in 1..n : /\ ins[i].location.filename = "src"
                                  /\ ~InBody(i - 1)
                                  /\ i \notin Jumps}
        \* the top-level statement an instruction was emitted for
        Stmt(i)  == CHOOSE k \in Tops : ins[i].location.line \in Lines(<<nodes[k]>>, 1)
    IN  /\ stage = "generated" =>
            /\ ins[n].opcode = "OP_HALT"
            /\ declared <=> (bytecode_find_function(bytecode, "main") >= 0)
            /\ Cardinality(entry) = IF declared THEN 1 ELSE 0
            /\ \A i \in entry :
                    /\ i = n - 1
                    /\ ins[i].opcode = "OP_CALL"
                    /\ ins[i].operand1 = bytecode_find_function(bytecode, "main")
                    /\ ins[i].operand2 = 0
                    /\ \A j \in Top : j < i
            /\ \A f \in 1..Len(bytecode.functions) :
                    bytecode.functions[f].start_ip \in Jumps
            /\ \A i \in Jumps : ins[i].operand1 \in i..(n - 1)
            /\ Cardinality(Jumps) = Cardinality({k \in 1..Len(nodes) :
                                                   nodes[k].type = "AST_FUNC_DECL"})
            /\ \A i, j \in Top : i < j => Stmt(i) <= Stmt(j)
            /\ \A k \in Tops : nodes[k].type # "AST_IMPORT" => \E i \in Top : Stmt(i) = k
        /\ (Running /\ frames = <<>>) => ~InBody(pc)

\* C34 witness: program 42 (print(1); func main() { print(2); } print(3);)
\* about to execute the entry call of main: both top-level statements have
\* printed, in source order, and main's body has not run.
MainCalledAfterTopLevel ==
    /\ src = 42
    /\ At("OP_CALL")
    /\ Ins.location.filename = "entry"
    /\ frames = <<>>
    /\ output = <<"1", "\n", "3", "\n">>

\* C35: once code is generated, every call in the program that names a
\* declared function, before or after the declaration and inside or outside
\* a body, is a call instruction with that function's ordinal and the call's
\* argument count, and every table entry's start_ip is not the sentinel but
\* the address behind the jump emitted for a declaration of that name.
CallSitesResolveToOrdinals ==
    stage = "generated" =>
        LET RECURSIVE Nodes(_, _)
            \* the nodes of list[i..] and all nodes below them
            Nodes(list, i) ==
                IF i > Len(list) THEN {}
                ELSE {list[i]}
                     \cup Nodes(list[i].kids \o list[i].init \o list[i].condition
                              \o list[i].increment \o list[i].body \o list[i].else_block, 1)
                     \cup Nodes(list, i + 1)
            all == Nodes(Programs[src], 1)
            ins == bytecode.instructions
        IN  /\ \A c \in all :
                  (c.type = "AST_CALL"
                      /\ \E d \in all : d.type = "AST_FUNC_DECL" /\ d.name = c.name)
                  => \E i \in 1..Len(ins) :
                        /\ ins[i].location = c.location
                        /\ ins[i].opcode = "OP_CALL"
                        /\ ins[i].operand1 = bytecode_find_function(bytecode, c.name)
                        /\ ins[i].operand1 >= 0
                        /\ ins[i].operand2 = Len(c.kids)
            /\ \A f \in 1..Len(bytecode.functions) :
                  /\ bytecode.functions[f].start_ip # SENTINEL
                  /\ bytecode.functions[f].start_ip \in 1..(Len(ins) - 1)
                  /\ ins[bytecode.functions[f].start_ip].opcode = "OP_JUMP"
                  /\ \E d \in all : /\ d.type = "AST_FUNC_DECL"
                                     /\ d.name = bytecode.functions[f].name
                                     /\ d.location = ins[bytecode.functions[f].start_ip].location

\* C38: once code is generated, every built-in call instruction stands for
\* a call whose callee is not a function the program declares, and every
\* call of a declared function is a call instruction with its ordinal.
UserFunctionsBeforeBuiltins ==
    stage = "generated" =>
        LET RECURSIVE Nodes(_, _)
            \* the nodes of list[i..] and all nodes below them
            Nodes(list, i) ==
                IF i > Len(list) THEN {}
                ELSE {list[i]}
                     \cup Nodes(list[i].kids \o list[i].init \o list[i].condition
                              \o list[i].increment \o list[i].body \o list[i].else_block, 1)
                     \cup Nodes(list, i + 1)
            all == Nodes(Programs[src], 1)
            ins == bytecode.instructions
            UserDefined(name) == \E d \in all : d.type = "AST_FUNC_DECL" /\ d.name = name
        IN  \A c \in all : c.type = "AST_CALL" =>
                \A i \in 1..Len(ins) :
                    (ins[i].location = c.location
                        /\ ins[i].opcode \in {"OP_CALL", "OP_CALL_BUILTIN"})
                    => IF UserDefined(c.name)
                       THEN /\ ins[i].opcode = "OP_CALL"
                            /\ ins[i].operand1 = bytecode_find_function(bytecode, c.name)
                       ELSE ins[i].opcode = "OP_CALL_BUILTIN" <=> lookup_builtin(c.name) > 0

\* C36: once code is generated, the declarations of local variables in a
\* function body, in the order of the source and whatever block they stand
\* in, store to the slots param_count, param_count + 1, ... one after the
\* other, so no two of them share a slot; a parameter that no local
\* declaration hides is read and written in the slot of its position; and the
\* table entry's local_count is param_count plus the number of local
\* declarations of the body emitted last under that name.
LocalSlotsNeverReused ==
    stage = "generated" =>
        LET RECURSIVE Decls(_, _), Nodes(_, _)
            \* the local declarations of list[i..], in the order they are emitted
            Decls(list, i) ==
                IF i > Len(list) THEN <<>>
                ELSE (IF list[i].type = "AST_VAR_DECL" THEN <<list[i]>> ELSE <<>>)
                     \o Decls(list[i].init, 1) \o Decls(list[i].body, 1)
                     \o Decls(list[i].else_block, 1) \o Decls(list, i + 1)
            \* the nodes of list[i..] and all nodes below them
            Nodes(list, i) ==
                IF i > Len(list) THEN {}
                ELSE {list[i]}
                     \cup Nodes(list[i].kids \o list[i].init \o list[i].condition
                              \o list[i].increment \o list[i].body \o list[i].else_block, 1)
                     \cup Nodes(list, i + 1)
            nodes == Programs[src]
            ins   == bytecode.instructions
            Funcs == {k \in 1..Len(nodes) : nodes[k].type = "AST_FUNC_DECL"}
            Last(k) == \A j \in Funcs : nodes[j].name = nodes[k].name => j <= k
        IN  \A k \in Funcs :
                LET d == nodes[k]
                    D == Decls(d.body, 1)
                    P == Len(d.params)
                IN  /\ \A j \in 1..Len(D) :
                          \E i \in 1..Len(ins) :
                              /\ ins[i].location = D[j].location
                              /\ ins[i].opcode = "OP_STORE_VAR"
                              /\ ins[i].operand1 = P + j - 1
                    /\ \A e \in Nodes(d.body, 1) : \A j \in 1..P :
                          (/\ e.type = "AST_IDENTIFIER"
                           /\ e.name = d.params[j]
                           /\ \A q \in (j + 1)..P : d.params[q] # e.name
                           /\ \A q \in 1..Len(D) : D[q].name # e.name)
                          => \E i \in 1..Len(ins) :
                                /\ ins[i].location = e.location
                                /\ ins[i].opcode \in {"OP_LOAD_VAR", "OP_STORE_VAR"}
                                /\ ins[i].operand1 = j - 1
                    /\ Last(k) =>
                          bytecode.functions[bytecode_find_function(bytecode, d.name) + 1].local_count
                              = P + Len(D)

\* C36 witness: the chunk of program 45, whose function has one parameter,
\* a declaration in its body and one in each of two sibling blocks: the
\* second block's declaration stores to slot 3 and local_count is 4.
SiblingBlocksGetFreshSlots ==
    /\ src = 45
    /\ stage = "generated"
    /\ bytecode.functions[1].local_count = 4
    /\ \E i \in 1..Len(bytecode.instructions) :
            /\ bytecode.instructions[i].location.line = 16
            /\ bytecode.instructions[i].opcode = "OP_STORE_VAR"
            /\ bytecode.instructions[i].operand1 = 3

\* C37: once code is generated, a declaration inside a block has a slot of
\* its own: at top level it does not store to the global slot of a
\* top-level variable of the same name, and in a function body it stores
\* neither to the slot of a same-named parameter nor to that of another
\* declaration of the same name; so the outer variable keeps its value.
InnerDeclarationShadows ==
    stage = "generated" =>
        LET RECURSIVE Decls(_, _)
            \* the declarations of list[i..] and of the blocks below them
            Decls(list, i) ==
                IF i > Len(list) THEN <<>>
                ELSE (IF list[i].type = "AST_VAR_DECL" THEN <<list[i]>> ELSE <<>>)
                     \o Decls(list[i].init, 1) \o Decls(list[i].body, 1)
                     \o Decls(list[i].else_block, 1) \o Decls(list, i + 1)
            nodes == Programs[src]
            ins   == bytecode.instructions
            \* the store emitted for declaration v: opcode and slot
            Store(v) == LET i == CHOOSE i \in 1..Len(ins) :
                                    /\ ins[i].location = v.location
                                    /\ ins[i].opcode \in {"OP_STORE_VAR", "OP_STORE_GLOBAL"}
                        IN  <<ins[i].opcode, ins[i].operand1>>
            Blocks(s) == Decls(s.init, 1) \o Decls(s.body, 1) \o Decls(s.else_block, 1)
        IN  /\ \A k, j \in 1..Len(nodes) :
                  (nodes[k].type = "AST_VAR_DECL" /\ nodes[j].type # "AST_FUNC_DECL") =>
                      \A q \in 1..Len(Blocks(nodes[j])) :
                          Blocks(nodes[j])[q].name = nodes[k].name
                              => Store(Blocks(nodes[j])[q]) # Store(nodes[k])
            /\ \A k \in 1..Len(nodes) : nodes[k].type = "AST_FUNC_DECL" =>
                  LET D == Decls(nodes[k].body, 1) IN
                  \A q \in 1..Len(D) :
                      /\ \A r \in 1..Len(D) :
                            (r # q /\ D[r].name = D[q].name) => Store(D[q]) # Store(D[r])
                      /\ \A p \in 1..Len(nodes[k].params) :
                            nodes[k].params[p] = D[q].name
                                => Store(D[q]) # <<"OP_STORE_VAR", p - 1>>

\* C39: a call that finds its arguments on the stack takes them off, binds
\* the k-th of them to slot k of a new frame and leaves the frames below
\* and the stack below the arguments as they were; while the callee runs
\* the stack never gets lower than that; and the matching return resumes
\* behind the call, pops the frame only, and leaves the stack as it was
\* below the arguments with exactly the returned value on top of it.
CallAndReturnPreserveCaller ==
    [][LET argc  == Ins.operand2
           \* number of arguments of the call that pushed frame f
           Argc(f) == bytecode.instructions[f.return_ip].operand2
           Same(v, w, h) == /\ v.type = w.type
                            /\ IF v.type = "STRING"
                               THEN Live(h, v.buf) /\ Live(heap, w.buf)
                                    /\ h[v.buf].data = heap[w.buf].data
                               ELSE v.num = w.num
           fr    == current_frame(frames)
       IN  /\ Running =>
                 \A k \in 1..Len(frames) :
                     Len(stack) >= frames[k].stack_base - Argc(frames[k])
           /\ (/\ At("OP_CALL")
               /\ Ins.operand1 < Len(bytecode.functions)
               /\ Len(frames) < VM_FRAMES_MAX
               /\ Len(stack) >= argc)
              => /\ Len(frames') = Len(frames) + 1
                 /\ SubSeq(frames', 1, Len(frames)) = frames
                 /\ stack' = SubSeq(stack, 1, Len(stack) - argc)
                 /\ pc' = bytecode.functions[Ins.operand1 + 1].start_ip
                 /\ frames'[Len(frames')].return_ip = pc + 1
                 /\ \A k \in 1..argc :
                        Same(frames'[Len(frames')].locals[k],
                             stack[Len(stack) - argc + k], heap')
           /\ (At("OP_RETURN") /\ Len(frames) > 0 /\ Len(stack) > 0)
              => /\ frames' = SubSeq(frames, 1, Len(frames) - 1)
                 /\ pc' = fr.return_ip
                 /\ Len(stack') = fr.stack_base - Argc(fr) + 1
                 /\ SubSeq(stack', 1, Len(stack') - 1)
                        = SubSeq(stack, 1, fr.stack_base - Argc(fr))
                 /\ Same(stack'[Len(stack')], stack[Len(stack)], heap')
      ]_vars

\* C40: between any two instructions, and before and after the run, every
\* string held in a local slot of a live frame or in a global slot is an
\* owned string: no slot holds a borrowed view of a buffer.
SlotsHoldOwnedStrings ==
    /\ \A k \in 1..Len(frames) : \A i \in 1..Len(frames[k].locals) :
           frames[k].locals[i].type = "STRING" => frames[k].locals[i].owned
    /\ \A j \in 1..Len(globals.slots) :
           globals.slots[j].type = "STRING" => globals.slots[j].owned

\* a running callee whose parameter and whose local each hold a copy of
\* their own of the string a global holds
StringInLocalAndGlobal ==
    /\ Running
    /\ \E k \in 1..Len(frames) : \E j \in 1..Len(globals.slots) :
           LET s == frames[k].locals[1]
               t == frames[k].locals[2]
               g == globals.slots[j] IN
           /\ s.type = "STRING" /\ t.type = "STRING" /\ g.type = "STRING"
           /\ Live(heap, s.buf) /\ Live(heap, t.buf) /\ Live(heap, g.buf)
           /\ Cardinality({s.buf, t.buf, g.buf}) = 3

\* C31: a program in whose tree some assignment has a left-hand side that
\* is neither an identifier nor an index access does not pass silently:
\* the parser, the type checker or the code generator records a
\* diagnostic for it.
BadAssignmentTargetDiagnosed ==
    LET RECURSIVE Bad(_, _)
        \* whether some node of list[i..] or below holds such an assignment
        Bad(list, i) ==
            IF i > Len(list) THEN FALSE
            ELSE LET n == list[i] IN
                 \/ /\ n.type = "AST_BIN_OP"
                    /\ n.operator = "="
                    /\ n.kids[1].type \notin {"AST_IDENTIFIER", "AST_INDEX_ACCESS"}
                 \/ Bad(n.kids \o n.body \o n.else_block \o n.init \o n.condition
                        \o n.increment, 1)
                 \/ Bad(list, i + 1)
    IN  (stage = "parsed" /\ Bad(parser.out, 1)) =>
            \/ Len(parser.errors) > 0
            \/ Len(type_checker_check(<<>>, parser.out)) > 0
            \/ Len(codegen_generate(codegen_create(<<>>), parser.out).errors) > 0

\* C32: the arguments of a call are parsed in colon mode only when the
\* callee is named printf.
ColonModeOnlyForPrintf ==
    stage = "parsed" => parser.colon \subseteq {"printf"}

\* C32, amended: the arguments of a call are parsed in colon mode only when
\* the callee is named printf or print; and a call of any other name whose
\* single-token first argument is followed by ':' ends there: it keeps one
\* argument and a diagnostic is recorded at the ':'.
ColonModeOnlyForPrintNames ==
    LET RECURSIVE Calls(_, _)
        \* the call nodes of list[i..] and below
        Calls(list, i) ==
            IF i > Len(list) THEN {}
            ELSE LET n == list[i] IN
                 (IF n.type = "AST_CALL" THEN {n} ELSE {})
                 \cup Calls(n.kids \o n.body \o n.else_block \o n.init \o n.condition
                            \o n.increment, 1)
                 \cup Calls(list, i + 1)
        t == parser.tokens
    IN  stage = "parsed" =>
            /\ parser.colon \subseteq {"printf", "print"}
            /\ \A c \in Calls(parser.out, 1) :
                  LET i == c.location.line IN
                  (/\ c.name \notin {"printf", "print"}
                   /\ i + 3 <= Len(t)
                   /\ t[i + 1].type = "TOKEN_LPAREN"
                   /\ t[i + 2].type \in {"TOKEN_INT", "TOKEN_STRING", "TOKEN_IDENTIFIER"}
                   /\ t[i + 3].type = "TOKEN_COLON")
                  => /\ Len(c.kids) = 1
                     /\ \E k \in 1..Len(parser.errors) :
                           parser.errors[k].location.line = i + 3

\* printf("a" : 1); parsed without a diagnostic into a call with two
\* arguments
PrintfColonCallParsed ==
    /\ stage = "parsed"
    /\ parser.colon = {"printf"}
    /\ parser.errors = <<>>
    /\ Len(parser.out) = 1
    /\ parser.out[1].type = "AST_CALL"
    /\ Len(parser.out[1].kids) = 2

\* C33: for every token array ending in EOF, parser_parse returns a program
\* node without aborting, and every iteration of its loops consumes a token or
\* leaves the loop: the call has returned (nobody waits any more), no loop
\* iteration is stuck, and no write went behind the end of a buffer
ParserParseReturnsProgram ==
    stage # "lexed" =>
        /\ stage = "parsed"
        /\ parser.pending = <<>>
        /\ ~parser.stuck
        /\ ~parser.overrun

====
